---- MODULE Spec2Model ----
(***************************************************************************)
(* Generation job orchestrator of ThumbnailAI                              *)
(* (backend/src/controllers/generate.controller.ts): the Replicate         *)
(* handlers generateImages and editImage, as one request processed from    *)
(* the call to the response.  Every `await` of a handler is a suspension   *)
(* point; the code between two awaits is one atomic step.  The outbound    *)
(* calls (Cloudinary, Replicate, the output downloads, MongoDB) are the    *)
(* environment: each answer is drawn from the outcomes the call can have.  *)
(* Time is the value of Date.now() - startTime; it advances only while     *)
(* the handler is suspended.                                               *)
(*                                                                         *)
(* Spec is one request to a Replicate handler or to deleteThumbnail;       *)
(* SpecChat is one request to rewriteQuery or to a generateImages handler  *)
(* that asks OpenRouter for a chat completion; SpecConcurrent is several   *)
(* generateImages requests in flight at once; SpecLogin is a sequence of   *)
(* login requests (controllers/auth.controller.ts, models/user.model.ts).  *)
(* SpecLive and SpecChatLive add that every awaited call settles.          *)
(***************************************************************************)
EXTENDS Integers, Sequences, FiniteSets, TLC

\* ------------------------------------------------------------- bounds
\* REPLICATE_TIMEOUT_MS is drawn from 1..MaxTimeout (time units).
MaxTimeout == 2
\* REPLICATE_POLL_INTERVAL_MS is drawn from 0..MaxInterval.
MaxInterval == 1
\* Latency of an awaited HTTP call and lateness of a timer: 0..MaxDelay.
MaxDelay == 1
\* Longest output list a prediction reports.
MaxOut == 2
\* The clock of the login specification runs over 0..MaxNow.
MaxNow == 1
\* Failed logins that lock an account (part_005 126).
MaxFailedAttempts == 5
\* The lock time of 15 minutes (part_005 127), in time units.
LockTime == 1

\* ------------------------------------------------------------- values
\* A falsy string (undefined, null or "") is the empty string.
Falsy == ""
Users == {"u1", "u2"}
Prompts == {Falsy, "red car"}
Rewrites == {Falsy, "enhanced red car"}
EditPrompts == {Falsy, "make it blue"}

\* The three generateImages handlers of the repository: the Replicate one is
\* "generateImages", the one of part_007 and the one of
\* generate.controller.ts 599-709 ask OpenRouter.
Chat == "generateImages (part_007)"
Sharp == "generateImages (sharp)"

InProgress == {"starting", "processing"}
OutputUrls == {"a", "b"}
ProviderErrors == {Falsy, "NSFW content detected"}

RECURSIVE SeqsUpTo(_, _)
SeqsUpTo(S, n) ==
    IF n = 0 THEN {<<>>}
    ELSE LET shorter == SeqsUpTo(S, n - 1)
         IN  shorter \cup {Append(s, x) : s \in {t \in shorter : Len(t) = n - 1}, x \in S}

\* poll.data.output: undefined/null, or an array of URLs.
Undefined == [def |-> FALSE, list |-> <<>>]
Array(l) == [def |-> TRUE, list |-> l]
OutputLists == SeqsUpTo(OutputUrls, MaxOut)

\* The body of a 2xx answer of GET /v1/predictions/{id}.
PollData ==
    [status : InProgress, output : {Undefined}, error : {Falsy}]
    \cup [status : {"succeeded"},
          output : {Undefined} \cup {Array(l) : l \in OutputLists},
          error : {Falsy}]
    \cup [status : {"failed"}, output : {Undefined}, error : ProviderErrors]
    \cup [status : {"canceled", "unknown"}, output : {Undefined}, error : {Falsy}]

\* Thrown values.  isError: `err instanceof Error`; message: err.message.
AxiosErrors ==
    {[isError |-> TRUE, message |-> "Network Error"],
     [isError |-> TRUE, message |-> "Request failed with status code 401"],
     [isError |-> TRUE, message |-> "Request failed with status code 500"]}
CloudinaryErrors ==
    {[isError |-> FALSE, message |-> "Upload failed"],
     [isError |-> TRUE, message |-> "Invalid transformation c_fill_pad"]}
MongooseErrors ==
    {[isError |-> TRUE, message |-> "Thumbnail validation failed"]}

NoError == [isError |-> FALSE, message |-> Falsy]

\* err.message.includes('c_fill_pad')
IncludesCFillPad(message) == message \in {"Invalid transformation c_fill_pad"}

Delays == 0..MaxDelay

\* Bytes served at an output URL, their base64 text, and the data URI built
\* from it: `data:image/png;base64,${...toString("base64")}`.
BytesAt(url) == <<"bytes", url>>
Base64Encode(bytes) == <<"base64", bytes>>
Base64Decode(text) == text[2]
DataUri(bytes) == [prefix |-> "data:image/png;base64", payload |-> Base64Encode(bytes)]
\* src.split(","): neither the prefix nor base64 text holds a comma, so the
\* split has two parts; part [1] of the code is part 2 here.
SplitComma(uri) == <<uri.prefix, uri.payload>>
\* Buffer.from(src.split(",")[1], "base64") re-encoded as a data URI.
ReEncode(src) == DataUri(Base64Decode(SplitComma(src)[2]))

NoUrl == [folder |-> "", asset |-> 0]
\* secure_url of the n-th asset Cloudinary stored.
SecureUrl(folder, n) == [folder |-> folder, asset |-> n]

NoBody == [error |-> "", details |-> <<>>, urls |-> <<>>]
NoResponse == [status |-> 0, body |-> NoBody]
ErrorBody(e, d) == [error |-> e, details |-> d, urls |-> <<>>]

\* The fields of a prediction object that 205-208 do not read.
Unread(data) == [output |-> data.output, error |-> data.error]
NoData == [output |-> Undefined, error |-> Falsy]

NoRequest ==
    [prompt |-> Falsy, queryRewrite |-> Falsy, userId |-> Falsy, file |-> FALSE,
     thumbnailId |-> 0, editPrompt |-> Falsy, email |-> Falsy,
     password |-> Falsy]

\* ---------------------------------------------------------- variables
VARIABLES
    REPLICATE_API_TOKEN,      \* TRUE iff process.env.REPLICATE_API_TOKEN is set
    REPLICATE_TIMEOUT,
    REPLICATE_POLL_INTERVAL,
    OPENROUTER_API_KEY,       \* TRUE iff process.env.OPENROUTER_API_KEY is set
    handler,                  \* the handler that runs: "none" before the call
    pc,                       \* the await the handler is suspended at
    req,                      \* req.body, req.user, req.file
    elapsed,                  \* Date.now() - startTime
    finalPrompt,
    originalImageUrl,
    existingThumbnail,
    predictionStatus,
    predictionOutput,
    predictionError,
    base64s,
    urls,
    pending,                  \* awaited operations that have not settled yet
    downloaded,               \* per output URL fetched so far: did it succeed
    cloud,                    \* assets stored by Cloudinary, in upload order
    thumbnails,               \* the Thumbnail collection, in insertion order
    tmpFile,                  \* the multer temp file exists on disk
    res,                      \* the response sent: status 0 before it
    sent,                     \* number of responses sent
    submits, polls, cancels,  \* requests issued to Replicate
    pollIssuedAt,             \* elapsed when the last status poll was issued
    checkedLateAt,            \* elapsed when the deadline check fired, or -1
    cancelResult,             \* how the cancel POST settled: "none" before
    caught,                   \* the await whose rejection the catch block got
    thrown,                   \* the value the catch block got
    submitted,                \* output and error of the submission's answer
    pollsFailed,              \* status polls that were rejected
    message,                  \* data.choices[0].message of the chat completion
    calls,                    \* concurrent requests: the activation of each
    predictions,              \* the predictions Replicate holds, by id
    requests,                 \* the requests issued to Replicate, by call
    accounts,                 \* the User collection, by email
    deployed,                 \* the version of the authentication routes that runs
    auth,                     \* the authentication request of each client
    clock,                    \* Date.now() as login reads it
    clockLag                  \* ticks Date.now() is behind the timers' clock

config == <<REPLICATE_API_TOKEN, REPLICATE_TIMEOUT, REPLICATE_POLL_INTERVAL,
           OPENROUTER_API_KEY>>
locals == <<finalPrompt, originalImageUrl, existingThumbnail, predictionStatus,
            predictionOutput, predictionError, base64s, urls>>
effects == <<cloud, thumbnails, tmpFile, submits, polls, cancels, pollIssuedAt,
             checkedLateAt, downloaded, cancelResult>>
observed == <<submitted, pollsFailed>>
concurrent == <<calls, predictions, requests>>
logins == <<accounts, deployed, auth, clock>>
vars == <<config, handler, pc, req, elapsed, clockLag, locals, pending, effects,
          res, sent, caught, thrown, observed, message, concurrent, logins>>


\* ---------------------------------------------------------- initial state
\* Records the collection holds before the call: one per user.
ExistingThumbnails ==
    <<[id |-> 1, userId |-> "u1", prompt |-> <<"old car">>,
       imageUrl |-> SecureUrl("thumbnails", 1), originalImageUrl |-> NoUrl,
       queryRewrite |-> Falsy],
      [id |-> 2, userId |-> "u2", prompt |-> <<"old boat">>,
       imageUrl |-> SecureUrl("thumbnails", 2), originalImageUrl |-> NoUrl,
       queryRewrite |-> "enhanced old boat"]>>
ExistingAssets ==
    <<[folder |-> "thumbnails", data |-> DataUri(BytesAt("x"))],
      [folder |-> "thumbnails", data |-> DataUri(BytesAt("y"))]>>
NoThumbnail ==
    [id |-> 0, userId |-> Falsy, prompt |-> <<>>, imageUrl |-> NoUrl,
     originalImageUrl |-> NoUrl, queryRewrite |-> Falsy]

\* The clients with a request in flight in the concurrent specification, and
\* the activation of generateImages before its client's request arrives.
Callers == {"c1", "c2"}
IdleCall ==
    [pc |-> "idle", prompt |-> Falsy, userId |-> Falsy,
     predictionId |-> 0, target |-> 0, predictionStatus |-> Falsy,
     predictionOutput |-> Undefined, predictionError |-> Falsy, fetched |-> 0,
     base64s |-> <<>>, urls |-> <<>>, res |-> NoResponse, caught |-> FALSE,
     disconnected |-> FALSE]

\* data.choices[0].message before the chat completion is answered.
NoMessage == [images |-> <<>>, content |-> <<>>]

\* bcrypt.hash(password, 12) and bcrypt.compare(candidate, hash).  Rehash is
\* bcrypt.hash of a string that is a hash already.
Hash(password) == <<"bcrypt", password>>
Rehash(hash) == <<"bcrypt">> \o hash
Compare(candidate, hash) == Hash(candidate) = hash

\* payload.sub of the ticket Google signed for an email.
Sub(email) == IF email = "a@x.io" THEN "sub a" ELSE "sub other"

\* User documents: lockUntil 0 is an unset date.
NoUser ==
    [password |-> Falsy, failedLoginAttempts |-> 0, lockUntil |-> 0,
     googleId |-> Falsy]
\* The User collection of a database on which no server has started yet.
NoUsers == [email \in {} |-> NoUser]
\* The demo user of seedOneUser (seed.ts 5-9) as the model of part_005 30-69
\* stores it.
DemoUser == [NoUser EXCEPT !.password = Hash("demo123")]
SeededUsers == [email \in {"demouser@gmail.com"} |-> DemoUser]

NoToken == <<>>
\* The bodies the authentication handlers answer with (part_008 9-215).
LoginBody(error, code, token) ==
    [error |-> error, details |-> <<>>, urls |-> <<>>, code |-> code,
     token |-> token]

\* The activation of an authentication handler before its client's request
\* arrives: req.body, the document loaded and the document as changed.
IdleAuth ==
    [fn |-> "none", pc |-> "idle", email |-> Falsy, password |-> Falsy,
     idToken |-> Falsy, loaded |-> NoUser, user |-> NoUser,
     res |-> [status |-> 0, body |-> LoginBody(Falsy, Falsy, NoToken)]]

\* No request has been received.
NoCall ==
    /\ handler = "none"
    /\ pc = "idle"
    /\ req = NoRequest
    /\ elapsed = 0
    /\ finalPrompt = Falsy
    /\ originalImageUrl = NoUrl
    /\ existingThumbnail = NoThumbnail
    /\ predictionStatus = Falsy
    /\ predictionOutput = Undefined
    /\ predictionError = Falsy
    /\ base64s = <<>>
    /\ urls = <<>>
    /\ pending = {}
    /\ downloaded = <<>>
    /\ cloud = ExistingAssets
    /\ thumbnails = ExistingThumbnails
    /\ tmpFile = FALSE
    /\ res = NoResponse
    /\ sent = 0
    /\ submits = 0
    /\ polls = 0
    /\ cancels = 0
    /\ pollIssuedAt = -1
    /\ checkedLateAt = -1
    /\ cancelResult = "none"
    /\ caught = "none"
    /\ thrown = NoError
    /\ submitted = NoData
    /\ pollsFailed = 0
    /\ message = NoMessage
    /\ calls = [c \in Callers |-> IdleCall]
    /\ predictions = <<>>
    /\ requests = {}
    /\ auth = [c \in Callers |-> IdleAuth]
    /\ clock = 0
    /\ clockLag = 0

\* A request to a Replicate handler: they do not read OPENROUTER_API_KEY.
Init ==
    /\ REPLICATE_API_TOKEN \in BOOLEAN
    /\ REPLICATE_TIMEOUT \in 1..MaxTimeout
    /\ REPLICATE_POLL_INTERVAL \in 0..MaxInterval
    /\ OPENROUTER_API_KEY = TRUE
    /\ NoCall
    /\ accounts = SeededUsers
    /\ deployed = "auth.controller"

\* A request to a chat-completion handler: they do not read the Replicate
\* settings.
InitChat ==
    /\ REPLICATE_API_TOKEN = TRUE
    /\ REPLICATE_TIMEOUT = 1
    /\ REPLICATE_POLL_INTERVAL = 1
    /\ OPENROUTER_API_KEY \in BOOLEAN
    /\ NoCall
    /\ accounts = SeededUsers
    /\ deployed = "auth.controller"

\* ------------------------------------------------- steps of the handlers
Op(name) == [op |-> name, idx |-> 0]

\* return res.status(s).json(b)
Respond(s, b) ==
    /\ res' = [status |-> s, body |-> b]
    /\ sent' = sent + 1
    /\ pc' = "done"
    /\ UNCHANGED <<caught, thrown>>

\* Suspend at an await: nothing is sent.
Suspend(at) ==
    /\ pc' = at
    /\ UNCHANGED <<res, sent, caught, thrown>>

\* err.response?.status of a thrown value: axios names the status of the
\* answer in the message.
ResponseStatus(err) ==
    IF err.message = "Request failed with status code 401" THEN 401
    ELSE IF err.message = "Request failed with status code 500" THEN 500
    ELSE 0

\* The catch block of the handler (290-311; editImage 462-474; part_007
\* 285-311; the handler of 599-709 at 704-708).
CatchBody(h, err) ==
    IF h = Sharp
    THEN ErrorBody("Image generation failed", <<>>)
    ELSE IF h = Chat /\ ResponseStatus(err) = 401
    THEN ErrorBody("AI service authentication failed. Please check your API configuration.",
                   <<"The OpenRouter API key appears to be invalid or expired.">>)
    ELSE IF h # "editImage" /\ err.message # Falsy /\ IncludesCFillPad(err.message)
    THEN ErrorBody("Image processing failed",
                   <<"There was an issue processing the generated image.">>)
    ELSE IF err.isError
    THEN ErrorBody(err.message, <<>>)
    ELSE ErrorBody(IF h = "editImage" THEN "Image editing failed"
                   ELSE "Image generation failed", <<>>)

\* Mutant: the catch block logs the error and sends nothing.
Catch_LogsOnly(err, at) ==
    /\ pc' = "done"
    /\ caught' = at
    /\ thrown' = err
    /\ UNCHANGED <<res, sent>>

Catch(err, at) ==
    /\ res' = [status |-> 500, body |-> CatchBody(handler, err)]
    /\ sent' = sent + 1
    /\ pc' = "done"
    /\ caught' = at
    /\ thrown' = err

\* Mutant: the deadline is read as seconds and compared with milliseconds.
DeadlineExceeded_InSeconds(now) == now > REPLICATE_TIMEOUT * 1000

\* Date.now() - startTime > REPLICATE_TIMEOUT
DeadlineExceeded(now) == now > REPLICATE_TIMEOUT

\* `Replicate status: ${predictionStatus}`
StatusDetails(status) == <<"Replicate status: ", status>>
\* Mutant: the provider's error reason is not passed on.
FailureDetails_StatusOnly(error, status) == StatusDetails(status)

\* predictionError || `Replicate status: ${predictionStatus}`
FailureDetails(error, status) ==
    IF error # Falsy THEN <<error>> ELSE StatusDetails(status)

\* predictionStatus !== "succeeded" || !predictionOutput?.length
GenerationFailed(status, output) ==
    status # "succeeded" \/ ~output.def \/ Len(output.list) = 0

\* Mutant: all remaining outputs are fetched at once (Promise.all).
FetchNext_AllAtOnce(list, k) == {[op |-> "download", idx |-> j] : j \in k..Len(list)}

\* The for-of loop over predictionOutput fetches the k-th URL and awaits it.
FetchNext(list, k) == {[op |-> "download", idx |-> k]}

\* Mutant: the empty-result check is missing.
NoImageData_Unchecked(images) == FALSE

\* !base64s.length (253)
NoImageData(images) == Len(images) = 0

\* The storage loop `for (const src of base64s)` at its test (259): the
\* upload of the next image is issued, or after the last one the urls are
\* sent (289).  `stored` are the urls pushed so far.
StorageLoop(images, stored, rest) ==
    IF Len(stored) < Len(images)
    THEN /\ pending' = rest \cup {Op("upload")}
         /\ Suspend("upload")
    ELSE /\ pending' = rest
         /\ Respond(200, [error |-> "", details |-> <<>>, urls |-> stored])

\* The download loop `for (const outputUrl of predictionOutput)` at its test
\* (244): the k-th fetch is issued, or after the last one the check of 253
\* runs and the storage loop starts.  `images` are the base64s pushed so far.
DownloadLoop(list, k, images, rest) ==
    IF k <= Len(list)
    THEN /\ pending' = rest \cup FetchNext(list, k)
         /\ Suspend("download")
    ELSE IF NoImageData(images)
    THEN /\ pending' = rest
         /\ Respond(500, ErrorBody("No image data received from Replicate", <<>>))
    ELSE StorageLoop(images, <<>>, rest)

\* Mutant: the loop goes on for every status that is neither succeeded nor
\* failed.
LoopHead_UntilKnownEnd(status, output, error, now, rest) ==
    IF status \notin {"succeeded", "failed"}
    THEN IF DeadlineExceeded(now)
         THEN /\ pending' = rest \cup {Op("cancel")}
              /\ cancels' = cancels + 1
              /\ checkedLateAt' = now
              /\ Suspend("cancel")
         ELSE /\ pending' = rest \cup {Op("timer")}
              /\ Suspend("sleep")
              /\ UNCHANGED <<cancels, checkedLateAt>>
    ELSE IF GenerationFailed(status, output)
    THEN /\ Respond(500, ErrorBody(IF handler = "generateImages"
                                   THEN "Image generation failed"
                                   ELSE "Image editing failed",
                                   FailureDetails(error, status)))
         /\ pending' = rest
         /\ UNCHANGED <<cancels, checkedLateAt>>
    ELSE /\ DownloadLoop(output.list, 1, <<>>, rest)
         /\ UNCHANGED <<cancels, checkedLateAt>>

\* The while loop from its test up to the next await (210-223), the check
\* after it (235-241) and the first fetch of the download loop (243-246),
\* run with the status, output and error just read, at time `now`; `rest`
\* are the awaited operations other than the one that was just answered.
LoopHead(status, output, error, now, rest) ==
    IF status \in InProgress
    THEN IF DeadlineExceeded(now)
         THEN /\ pending' = rest \cup {Op("cancel")}
              /\ cancels' = cancels + 1
              /\ checkedLateAt' = now
              /\ Suspend("cancel")
         ELSE /\ pending' = rest \cup {Op("timer")}
              /\ Suspend("sleep")
              /\ UNCHANGED <<cancels, checkedLateAt>>
    ELSE IF GenerationFailed(status, output)
    THEN /\ Respond(500, ErrorBody(IF handler = "generateImages"
                                   THEN "Image generation failed"
                                   ELSE "Image editing failed",
                                   FailureDetails(error, status)))
         /\ pending' = rest
         /\ UNCHANGED <<cancels, checkedLateAt>>
    ELSE /\ DownloadLoop(output.list, 1, <<>>, rest)
         /\ UNCHANGED <<cancels, checkedLateAt>>

\* Mutant: the submission is issued without the credential check.
CheckTokenAndSubmit_Unchecked(rest) ==
    /\ pending' = rest \cup {Op("submit")}
    /\ submits' = submits + 1
    /\ elapsed' = 0
    /\ Suspend("submit")

\* The credential check and the submission (161-203; editImage submits at
\* 366-376 after its own check): startTime is taken right before the POST.
CheckTokenAndSubmit(rest) ==
    IF ~REPLICATE_API_TOKEN
    THEN /\ Respond(500, ErrorBody("AI service configuration missing",
                <<"Replicate API token is required for image generation. Please check your environment variables.">>))
         /\ pending' = rest
         /\ UNCHANGED <<submits, elapsed>>
    ELSE /\ pending' = rest \cup {Op("submit")}
         /\ submits' = submits + 1
         /\ elapsed' = 0
         /\ Suspend("submit")

\* Mutant: the owner id is not checked.
CallGenerateImages_OwnerUnchecked ==
    /\ pc = "idle"
    /\ \E prompt \in Prompts, queryRewrite \in Rewrites,
          userId \in {Falsy} \cup Users, file \in BOOLEAN :
        /\ handler' = "generateImages"
        /\ req' = [NoRequest EXCEPT !.prompt = prompt, !.queryRewrite = queryRewrite,
                                    !.userId = userId, !.file = file]
        /\ tmpFile' = file
        /\ IF prompt = Falsy
           THEN /\ Respond(400, ErrorBody("Prompt is required", <<>>))
                /\ UNCHANGED <<finalPrompt, pending, submits, elapsed>>
           ELSE /\ finalPrompt' = (IF queryRewrite # Falsy THEN queryRewrite ELSE prompt)
                /\ IF file
                   THEN /\ pending' = {Op("referenceUpload")}
                        /\ Suspend("referenceUpload")
                        /\ UNCHANGED <<submits, elapsed>>
                   ELSE CheckTokenAndSubmit({})
    /\ UNCHANGED <<config, logins, clockLag, concurrent, message, observed, cancelResult,
                   originalImageUrl, existingThumbnail, predictionStatus,
                   predictionOutput, predictionError, base64s, urls, downloaded,
                   cloud, thumbnails, polls, cancels, pollIssuedAt,
                   checkedLateAt>>

\* POST /generate/images reaches generateImages behind authMiddleware and
\* multer: req.user is set or the handler is not run, and an uploaded
\* reference file is on disk.  The handler runs to its first await
\* (124-145, or 161-203 without a file).
CallGenerateImages ==
    /\ pc = "idle"
    /\ \E prompt \in Prompts, queryRewrite \in Rewrites,
          userId \in {Falsy} \cup Users, file \in BOOLEAN :
        /\ handler' = "generateImages"
        /\ req' = [NoRequest EXCEPT !.prompt = prompt, !.queryRewrite = queryRewrite,
                                    !.userId = userId, !.file = file]
        /\ tmpFile' = file
        /\ IF prompt = Falsy
           THEN /\ Respond(400, ErrorBody("Prompt is required", <<>>))
                /\ UNCHANGED <<finalPrompt, pending, submits, elapsed>>
           ELSE IF userId = Falsy
           THEN /\ Respond(401, ErrorBody("Not authenticated", <<>>))
                /\ UNCHANGED <<finalPrompt, pending, submits, elapsed>>
           ELSE /\ finalPrompt' = (IF queryRewrite # Falsy THEN queryRewrite ELSE prompt)
                /\ IF file
                   THEN /\ pending' = {Op("referenceUpload")}
                        /\ Suspend("referenceUpload")
                        /\ UNCHANGED <<submits, elapsed>>
                   ELSE CheckTokenAndSubmit({})
    /\ UNCHANGED <<config, logins, clockLag, concurrent, message, observed, cancelResult,
                   originalImageUrl, existingThumbnail, predictionStatus,
                   predictionOutput, predictionError, base64s, urls, downloaded,
                   cloud, thumbnails, polls, cancels, pollIssuedAt,
                   checkedLateAt>>

\* cloudinary.uploader.upload(uploadedFile.path, {folder: "reference-images"})
\* settles (142-159), then the handler runs on to the submission.
ReferenceUploadSettles ==
    /\ pc = "referenceUpload"
    /\ handler = "generateImages"
    /\ \E r \in pending :
        /\ r.op = "referenceUpload"
        /\ \/ /\ cloud' = Append(cloud, [folder |-> "reference-images",
                                         data |-> DataUri(BytesAt("ref"))])
              /\ originalImageUrl' = SecureUrl("reference-images", Len(cloud) + 1)
              /\ tmpFile' = FALSE
              /\ CheckTokenAndSubmit(pending \ {r})
           \/ /\ tmpFile' = FALSE
              /\ Respond(500, ErrorBody("Failed to upload reference image", <<>>))
              /\ pending' = pending \ {r}
              /\ UNCHANGED <<cloud, originalImageUrl, submits, elapsed>>
    /\ UNCHANGED <<config, logins, clockLag, concurrent, message, observed, cancelResult,
                   handler, req, finalPrompt, existingThumbnail,
                   predictionStatus, predictionOutput, predictionError, base64s,
                   urls, downloaded, thumbnails, polls, cancels, pollIssuedAt,
                   checkedLateAt>>


\* setTimeout(resolve, REPLICATE_POLL_INTERVAL): Node raises a delay below 1
\* to 1.
TimerDelay(interval) == IF interval < 1 THEN 1 ELSE interval

\* Mutant: a rejected submission is issued again.
SubmitSettles_RetryOnError ==
    /\ pc = "submit"
    /\ \E r \in pending, d \in Delays :
        /\ r.op = "submit"
        /\ elapsed' = elapsed + d
        /\ \/ \E data \in PollData :
                /\ submitted' = Unread(data)
                /\ predictionStatus' = data.status
                /\ LoopHead(data.status, predictionOutput, predictionError,
                            elapsed + d, pending \ {r})
                /\ UNCHANGED submits
           \/ \E err \in AxiosErrors :
                /\ IF submits < 2
                   THEN /\ submits' = submits + 1
                        /\ Suspend("submit")
                        /\ UNCHANGED pending
                   ELSE /\ Catch(err, "submit")
                        /\ pending' = pending \ {r}
                        /\ UNCHANGED submits
                /\ UNCHANGED <<submitted, predictionStatus, cancels,
                               checkedLateAt>>
    /\ UNCHANGED <<config, logins, clockLag, concurrent, message, pollsFailed,
                   cancelResult, handler, req, finalPrompt, originalImageUrl,
                   existingThumbnail, predictionOutput, predictionError,
                   base64s, urls, downloaded, cloud, thumbnails, tmpFile, polls,
                   pollIssuedAt>>

\* POST /v1/predictions settles (199-208): the answer is a prediction object
\* like that of a status poll, but only id and status are read from it;
\* predictionOutput and predictionError stay undefined.
SubmitSettles ==
    /\ pc = "submit"
    /\ \E r \in pending, d \in Delays :
        /\ r.op = "submit"
        /\ elapsed' = elapsed + d
        /\ \/ \E data \in PollData :
                /\ submitted' = Unread(data)
                /\ predictionStatus' = data.status
                /\ LoopHead(data.status, predictionOutput, predictionError,
                            elapsed + d, pending \ {r})
           \/ \E err \in AxiosErrors :
                /\ Catch(err, "submit")
                /\ pending' = pending \ {r}
                /\ UNCHANGED <<submitted, predictionStatus, cancels,
                               checkedLateAt>>
    /\ UNCHANGED <<config, logins, clockLag, concurrent, message, pollsFailed,
                   cancelResult, handler, req, finalPrompt, originalImageUrl,
                   existingThumbnail, predictionOutput, predictionError,
                   base64s, urls, downloaded, cloud, thumbnails, tmpFile,
                   submits, polls, pollIssuedAt>>

\* The ticks Date.now() is behind after it advanced by `adv` where `due`
\* ticks were due and it was `lag` behind already.
Lag(lag, due, adv) == IF lag + due > adv THEN lag + due - adv ELSE 0

\* The sleep of one tick ends and the status poll is issued (223-228).  The
\* timer is due TimerDelay ticks of the event loop's clock after the loop's
\* cached time, and Date.now() is the wall clock cut to a whole tick: over
\* the sleep it can advance by one tick less than the delay.  The shortfall
\* does not add up over the sleeps: clockLag is never more than one tick.
SleepEnds ==
    /\ pc = "sleep"
    /\ \E r \in pending :
        /\ r.op = "timer"
        /\ \E adv \in (TimerDelay(REPLICATE_POLL_INTERVAL) - 1 + clockLag)
                         ..(TimerDelay(REPLICATE_POLL_INTERVAL) + MaxDelay) :
            /\ elapsed' = elapsed + adv
            /\ clockLag' = Lag(clockLag, TimerDelay(REPLICATE_POLL_INTERVAL), adv)
        /\ pollIssuedAt' = elapsed'
        /\ polls' = polls + 1
        /\ pending' = (pending \ {r}) \cup {Op("poll")}
        /\ Suspend("poll")
    /\ UNCHANGED <<config, logins, concurrent, message, observed, cancelResult,
                   handler, req, locals, downloaded, cloud, thumbnails, tmpFile,
                   submits, cancels, checkedLateAt>>

\* Mutant: a rejected status poll is swallowed and counts as one more tick.
PollSettles_ErrorIsTick ==
    /\ pc = "poll"
    /\ \E r \in pending, d \in Delays :
        /\ r.op = "poll"
        /\ elapsed' = elapsed + d
        /\ clockLag' = Lag(clockLag, 0, d)
        /\ \/ \E data \in PollData :
                /\ predictionStatus' = data.status
                /\ predictionOutput' = data.output
                /\ predictionError' = data.error
                /\ LoopHead(data.status, data.output, data.error,
                            elapsed + d, pending \ {r})
                /\ UNCHANGED pollsFailed
           \/ \E err \in AxiosErrors :
                /\ pollsFailed' = pollsFailed + 1
                /\ LoopHead(predictionStatus, predictionOutput, predictionError,
                            elapsed + d, pending \ {r})
                /\ UNCHANGED <<predictionStatus, predictionOutput,
                               predictionError>>
    /\ UNCHANGED <<config, logins, concurrent, message, submitted, cancelResult,
                   handler, req, finalPrompt, originalImageUrl,
                   existingThumbnail, base64s, urls, downloaded, cloud,
                   thumbnails, tmpFile, submits, polls, pollIssuedAt>>

\* GET /v1/predictions/{id} settles (225-233), then the loop test runs again.
PollSettles ==
    /\ pc = "poll"
    /\ \E r \in pending, d \in Delays :
        /\ r.op = "poll"
        /\ elapsed' = elapsed + d
        /\ clockLag' = Lag(clockLag, 0, d)
        /\ \/ \E data \in PollData :
                /\ predictionStatus' = data.status
                /\ predictionOutput' = data.output
                /\ predictionError' = data.error
                /\ LoopHead(data.status, data.output, data.error,
                            elapsed + d, pending \ {r})
                /\ UNCHANGED pollsFailed
           \/ \E err \in AxiosErrors :
                /\ Catch(err, "poll")
                /\ pollsFailed' = pollsFailed + 1
                /\ pending' = pending \ {r}
                /\ UNCHANGED <<predictionStatus, predictionOutput,
                               predictionError, cancels, checkedLateAt>>
    /\ UNCHANGED <<config, logins, concurrent, message, submitted, cancelResult,
                   handler, req, finalPrompt, originalImageUrl,
                   existingThumbnail, base64s, urls, downloaded, cloud,
                   thumbnails, tmpFile, submits, polls, pollIssuedAt>>

\* Mutant: the rejection of the cancel POST is not swallowed and reaches the
\* catch block.
CancelSettles_RejectionThrown ==
    /\ pc = "cancel"
    /\ \E r \in pending, fulfilled \in BOOLEAN :
        /\ r.op = "cancel"
        /\ cancelResult' = (IF fulfilled THEN "fulfilled" ELSE "rejected")
        /\ pending' = pending \ {r}
        /\ IF fulfilled
           THEN Respond(504, ErrorBody("Image generation timed out",
                        <<"Replicate prediction exceeded the configured timeout">>))
           ELSE Catch([isError |-> TRUE, message |-> "Network Error"], "cancel")
    /\ UNCHANGED <<config, logins, clockLag, concurrent, message, observed, handler, req,
                   elapsed, locals, cloud, thumbnails, tmpFile, submits, polls,
                   cancels, pollIssuedAt, checkedLateAt, downloaded>>

\* The awaited cancel POST settles, fulfilled or rejected (the rejection is
\* swallowed by .catch(() => {})), and the 504 is sent (212-220).
CancelSettles ==
    /\ pc = "cancel"
    /\ \E r \in pending, fulfilled \in BOOLEAN :
        /\ r.op = "cancel"
        /\ cancelResult' = (IF fulfilled THEN "fulfilled" ELSE "rejected")
        /\ pending' = pending \ {r}
        /\ Respond(504, ErrorBody(IF handler = "generateImages"
                                  THEN "Image generation timed out"
                                  ELSE "Image editing timed out",
                        <<"Replicate prediction exceeded the configured timeout">>))
    /\ UNCHANGED <<config, logins, clockLag, concurrent, message, observed, handler, req,
                   elapsed, locals, cloud, thumbnails, tmpFile, submits, polls,
                   cancels, pollIssuedAt, checkedLateAt, downloaded>>

\* Mutant: the fetched image replaces the list instead of joining it.
PushImage_Overwrite(list, image) == <<image>>

\* base64s.push(...) of a fetched output (247).
PushImage(list, image) == Append(list, image)

\* One output fetch settles (244-251): its bytes are pushed as a data URI, or
\* the failure is logged and dropped; then the loop goes on.
DownloadSettles ==
    /\ pc = "download"
    /\ \E r \in pending, ok \in BOOLEAN :
        /\ r.op = "download"
        /\ LET list == predictionOutput.list
               fetched == IF ok
                          THEN PushImage(base64s, DataUri(BytesAt(list[r.idx])))
                          ELSE base64s
               rest == pending \ {r}
           IN  /\ base64s' = fetched
               /\ downloaded' = Append(downloaded, [idx |-> r.idx, ok |-> ok])
               /\ DownloadLoop(list, r.idx + 1, fetched, rest)
    /\ UNCHANGED <<config, logins, clockLag, concurrent, message, observed, cancelResult,
                   handler, req, elapsed, finalPrompt, originalImageUrl,
                   existingThumbnail, predictionStatus, predictionOutput,
                   predictionError, urls, cloud, thumbnails, tmpFile, submits,
                   polls, cancels, pollIssuedAt, checkedLateAt>>

\* The document of `new Thumbnail({...})` (280-286; editImage 452-458;
\* part_007 275-281; 691-697).
NewThumbnail(h, imageUrl) ==
    IF h # "editImage"
    THEN [id |-> Len(thumbnails) + 1, userId |-> req.userId,
          prompt |-> <<finalPrompt>>, imageUrl |-> imageUrl,
          originalImageUrl |-> originalImageUrl,
          queryRewrite |-> req.queryRewrite]
    ELSE [id |-> Len(thumbnails) + 1, userId |-> req.userId,
          prompt |-> existingThumbnail.prompt
                     \o <<"\nRequested changes: ", req.editPrompt>>,
          imageUrl |-> imageUrl,
          originalImageUrl |-> existingThumbnail.imageUrl,
          queryRewrite |-> existingThumbnail.queryRewrite]

\* cloudinary.uploader.upload of the image the storage loop is at settles
\* (259-279): its secure_url is pushed and the save is issued, or the
\* rejection leaves the loop for the catch block.
UploadSettles ==
    /\ pc = "upload"
    /\ \E r \in pending :
        /\ r.op = "upload"
        /\ \/ /\ cloud' = Append(cloud, [folder |-> "thumbnails",
                                         data |-> ReEncode(base64s[Len(urls) + 1])])
              /\ urls' = Append(urls, SecureUrl("thumbnails", Len(cloud) + 1))
              /\ pending' = (pending \ {r}) \cup {Op("save")}
              /\ Suspend("save")
           \/ \E err \in CloudinaryErrors :
                /\ Catch(err, "upload")
                /\ pending' = pending \ {r}
                /\ UNCHANGED <<cloud, urls>>
    /\ UNCHANGED <<config, logins, clockLag, concurrent, message, observed, cancelResult,
                   handler, req, elapsed, finalPrompt, originalImageUrl,
                   existingThumbnail, predictionStatus, predictionOutput,
                   predictionError, base64s, downloaded, thumbnails, tmpFile,
                   submits, polls, cancels, pollIssuedAt, checkedLateAt>>

\* The save of the record settles (280-289) and the storage loop goes on; a
\* rejection leaves the loop for the catch block.
SaveSettles ==
    /\ pc = "save"
    /\ \E r \in pending :
        /\ r.op = "save"
        /\ \/ /\ thumbnails' = Append(thumbnails,
                                      NewThumbnail(handler, urls[Len(urls)]))
              /\ StorageLoop(base64s, urls, pending \ {r})
           \/ \E err \in MongooseErrors :
                /\ Catch(err, "save")
                /\ pending' = pending \ {r}
                /\ UNCHANGED thumbnails
    /\ UNCHANGED <<config, logins, clockLag, concurrent, message, observed, cancelResult,
                   handler, req, elapsed, locals, downloaded, cloud, tmpFile,
                   submits, polls, cancels, pollIssuedAt, checkedLateAt>>

\* ------------------------------------------------------------ generateImages
GenerateImagesSubmitSettles == handler = "generateImages" /\ SubmitSettles
GenerateImagesSleepEnds == handler = "generateImages" /\ SleepEnds
GenerateImagesPollSettles == handler = "generateImages" /\ PollSettles
GenerateImagesCancelSettles == handler = "generateImages" /\ CancelSettles
GenerateImagesDownloadSettles == handler = "generateImages" /\ DownloadSettles
GenerateImagesUploadSettles == handler = "generateImages" /\ UploadSettles
GenerateImagesSaveSettles == handler = "generateImages" /\ SaveSettles

GenerateImages ==
    \/ CallGenerateImages
    \/ ReferenceUploadSettles
    \/ GenerateImagesSubmitSettles
    \/ GenerateImagesSleepEnds
    \/ GenerateImagesPollSettles
    \/ GenerateImagesCancelSettles
    \/ GenerateImagesDownloadSettles
    \/ GenerateImagesUploadSettles
    \/ GenerateImagesSaveSettles

\* ----------------------------------------------------------------- editImage
\* Mutant: the lookup is by id alone.
FindOne_AnyOwner(id, userId) ==
    {t \in {thumbnails[i] : i \in 1..Len(thumbnails)} : t.id = id}

\* Thumbnail.findOne({ _id: thumbnailId, userId })
FindOne(id, userId) ==
    {t \in {thumbnails[i] : i \in 1..Len(thumbnails)} :
        t.id = id /\ t.userId = userId}

\* POST /generate/edit reaches editImage behind authMiddleware; the handler
\* runs to its first await (314-334).  thumbnailId 0 is a missing id.
CallEditImage ==
    /\ pc = "idle"
    /\ \E thumbnailId \in 0..(Len(thumbnails) + 1), editPrompt \in EditPrompts,
          userId \in {Falsy} \cup Users :
        /\ handler' = "editImage"
        /\ req' = [NoRequest EXCEPT !.thumbnailId = thumbnailId,
                                    !.editPrompt = editPrompt, !.userId = userId]
        /\ IF userId = Falsy
           THEN /\ Respond(401, ErrorBody("Not authenticated", <<>>))
                /\ UNCHANGED pending
           ELSE IF thumbnailId = 0 \/ editPrompt = Falsy
           THEN /\ Respond(400, ErrorBody("Thumbnail ID and edit prompt are required", <<>>))
                /\ UNCHANGED pending
           ELSE IF ~REPLICATE_API_TOKEN
           THEN /\ Respond(500, ErrorBody("AI service configuration missing",
                        <<"Replicate API token is required for image editing. Please check your environment variables.">>))
                /\ UNCHANGED pending
           ELSE /\ pending' = {Op("findOne")}
                /\ Suspend("findOne")
    /\ UNCHANGED <<config, logins, clockLag, concurrent, message, observed, elapsed,
                   locals, effects>>

\* The lookup settles (334-345): 404 unless the caller owns the thumbnail,
\* otherwise the original image is fetched.
FindOneSettles ==
    /\ pc = "findOne"
    /\ handler = "editImage"
    /\ \E r \in pending :
        /\ r.op = "findOne"
        /\ \/ LET found == FindOne(req.thumbnailId, req.userId)
              IN  IF found = {}
                  THEN /\ Respond(404, ErrorBody("Thumbnail not found", <<>>))
                       /\ pending' = pending \ {r}
                       /\ UNCHANGED existingThumbnail
                  ELSE /\ existingThumbnail' = CHOOSE t \in found : TRUE
                       /\ pending' = (pending \ {r}) \cup {Op("fetchOriginal")}
                       /\ Suspend("fetchOriginal")
           \/ \E err \in MongooseErrors :
                /\ Catch(err, "findOne")
                /\ pending' = pending \ {r}
                /\ UNCHANGED existingThumbnail
    /\ UNCHANGED <<config, logins, clockLag, concurrent, message, observed, handler, req,
                   elapsed, finalPrompt, originalImageUrl, predictionStatus,
                   predictionOutput, predictionError, base64s, urls, effects>>

\* The fetch of the original image settles (344-376): a failure is the 500 of
\* 349, otherwise startTime is taken and the prediction is submitted.
FetchOriginalSettles ==
    /\ pc = "fetchOriginal"
    /\ handler = "editImage"
    /\ \E r \in pending :
        /\ r.op = "fetchOriginal"
        /\ \/ /\ pending' = (pending \ {r}) \cup {Op("submit")}
              /\ submits' = submits + 1
              /\ elapsed' = 0
              /\ Suspend("submit")
           \/ /\ Respond(500, ErrorBody("Unable to fetch original image for editing.", <<>>))
              /\ pending' = pending \ {r}
              /\ UNCHANGED <<submits, elapsed>>
    /\ UNCHANGED <<config, logins, clockLag, concurrent, message, observed, cancelResult,
                   handler, req, locals, cloud, thumbnails, tmpFile, polls,
                   cancels, pollIssuedAt, checkedLateAt, downloaded>>

EditImageSubmitSettles == handler = "editImage" /\ SubmitSettles
EditImageSleepEnds == handler = "editImage" /\ SleepEnds
EditImagePollSettles == handler = "editImage" /\ PollSettles
EditImageCancelSettles == handler = "editImage" /\ CancelSettles
EditImageDownloadSettles == handler = "editImage" /\ DownloadSettles
EditImageUploadSettles == handler = "editImage" /\ UploadSettles
EditImageSaveSettles == handler = "editImage" /\ SaveSettles

EditImage ==
    \/ CallEditImage
    \/ FindOneSettles
    \/ FetchOriginalSettles
    \/ EditImageSubmitSettles
    \/ EditImageSleepEnds
    \/ EditImagePollSettles
    \/ EditImageCancelSettles
    \/ EditImageDownloadSettles
    \/ EditImageUploadSettles
    \/ EditImageSaveSettles

\* ------------------------------------------------------------ authMiddleware
\* req.headers.authorization: absent, of another scheme, or a Bearer token.
AuthHeaders ==
    {[scheme |-> "", token |-> ""], [scheme |-> "Basic", token |-> "dXNlcg=="],
     [scheme |-> "Bearer", token |-> "expired"], [scheme |-> "Bearer", token |-> "valid"]}

\* authMiddleware (singleUserAuth.ts 65-81): the error it answers 401 with, or
\* "next" when jwt.verify accepts the token and the handler is run.
AuthMiddleware(authHeader) ==
    IF authHeader.scheme # "Bearer" THEN "No token provided"
    ELSE IF authHeader.token # "valid" THEN "Invalid or expired token"
    ELSE "next"

\* A request to a protected route that authMiddleware turns away: neither
\* multer nor the handler runs.
AuthMiddlewareRejects ==
    /\ pc = "idle"
    /\ \E authHeader \in AuthHeaders :
        /\ AuthMiddleware(authHeader) # "next"
        /\ handler' = "authMiddleware"
        /\ Respond(401, ErrorBody(AuthMiddleware(authHeader), <<>>))
    /\ UNCHANGED <<config, logins, clockLag, concurrent, message, observed, req, elapsed,
                   locals, pending, effects>>

\* ----------------------------------------------------------- deleteThumbnail
\* DELETE /generate/thumbnails/:thumbnailId reaches deleteThumbnail behind
\* authMiddleware; the handler runs to its first await (487-492).
CallDeleteThumbnail ==
    /\ pc = "idle"
    /\ \E thumbnailId \in 1..(Len(thumbnails) + 1), userId \in {Falsy} \cup Users :
        /\ handler' = "deleteThumbnail"
        /\ req' = [NoRequest EXCEPT !.thumbnailId = thumbnailId, !.userId = userId]
        /\ IF userId = Falsy
           THEN /\ Respond(401, ErrorBody("Not authenticated", <<>>))
                /\ UNCHANGED pending
           ELSE /\ pending' = {Op("findOne")}
                /\ Suspend("findOne")
    /\ UNCHANGED <<config, logins, clockLag, concurrent, message, observed, elapsed,
                   locals, effects>>

\* The lookup settles (492-497): 404 unless the caller owns the thumbnail,
\* otherwise the stored image is destroyed first.  The handler has no try:
\* a rejection ends it with no response.
DeleteFindOneSettles ==
    /\ pc = "findOne"
    /\ handler = "deleteThumbnail"
    /\ \E r \in pending :
        /\ r.op = "findOne"
        /\ \/ LET found == FindOne(req.thumbnailId, req.userId)
              IN  IF found = {}
                  THEN /\ Respond(404, ErrorBody("Thumbnail not found", <<>>))
                       /\ pending' = pending \ {r}
                       /\ UNCHANGED existingThumbnail
                  ELSE /\ existingThumbnail' = CHOOSE t \in found : TRUE
                       /\ pending' = (pending \ {r}) \cup {Op("destroy")}
                       /\ Suspend("destroy")
           \/ \E err \in MongooseErrors :
                /\ pc' = "done" /\ caught' = "findOne" /\ thrown' = err
                /\ pending' = pending \ {r}
                /\ UNCHANGED <<res, sent, existingThumbnail>>
    /\ UNCHANGED <<config, logins, clockLag, concurrent, message, observed, handler, req,
                   elapsed, finalPrompt, originalImageUrl, predictionStatus,
                   predictionOutput, predictionError, base64s, urls, effects>>

\* cloudinary.uploader.destroy(`thumbnails/${publicId}`) settles (496-499):
\* the asset the record's imageUrl names is gone, and the record's deletion
\* is issued.
DestroySettles ==
    /\ pc = "destroy"
    /\ handler = "deleteThumbnail"
    /\ \E r \in pending :
        /\ r.op = "destroy"
        /\ \/ /\ cloud' = [cloud EXCEPT ![existingThumbnail.imageUrl.asset] =
                              [folder |-> "thumbnails",
                               data |-> [prefix |-> "", payload |-> <<>>]]]
              /\ pending' = (pending \ {r}) \cup {Op("deleteOne")}
              /\ Suspend("deleteOne")
           \/ \E err \in CloudinaryErrors :
                /\ pc' = "done" /\ caught' = "destroy" /\ thrown' = err
                /\ pending' = pending \ {r}
                /\ UNCHANGED <<res, sent, cloud>>
    /\ UNCHANGED <<config, logins, clockLag, concurrent, message, observed, handler, req,
                   elapsed, locals, thumbnails, tmpFile, submits, polls,
                   cancels, pollIssuedAt, checkedLateAt, downloaded,
                   cancelResult>>

\* Thumbnail.deleteOne({ _id: thumbnailId }) settles (499-500).
DeleteOneSettles ==
    /\ pc = "deleteOne"
    /\ handler = "deleteThumbnail"
    /\ \E r \in pending :
        /\ r.op = "deleteOne"
        /\ pending' = pending \ {r}
        /\ \/ /\ thumbnails' = SelectSeq(thumbnails,
                                         LAMBDA t : t.id # req.thumbnailId)
              /\ Respond(200, [error |-> "", details |-> <<>>, urls |-> <<>>,
                               message |-> "Thumbnail deleted"])
           \/ \E err \in MongooseErrors :
                /\ pc' = "done" /\ caught' = "deleteOne" /\ thrown' = err
                /\ UNCHANGED <<res, sent, thumbnails>>
    /\ UNCHANGED <<config, logins, clockLag, concurrent, message, observed, handler, req,
                   elapsed, locals, cloud, tmpFile, submits, polls, cancels,
                   pollIssuedAt, checkedLateAt, downloaded, cancelResult>>

\* The deleteThumbnail of 730-747, which keeps the images as local files.
DeleteLocal == "deleteThumbnail (local files)"

\* Its catch block (744-746).
DeleteLocalCatch(err, at) ==
    /\ res' = [status |-> 500,
               body |-> ErrorBody("Failed to delete thumbnail", <<>>)]
    /\ sent' = sent + 1
    /\ pc' = "done"
    /\ caught' = at
    /\ thrown' = err

\* The handler of 730-747 runs to its first await (731-736).
CallDeleteLocal ==
    /\ pc = "idle"
    /\ \E thumbnailId \in 1..(Len(thumbnails) + 1), userId \in {Falsy} \cup Users :
        /\ handler' = DeleteLocal
        /\ req' = [NoRequest EXCEPT !.thumbnailId = thumbnailId, !.userId = userId]
        /\ IF userId = Falsy
           THEN /\ Respond(401, ErrorBody("User not authenticated", <<>>))
                /\ UNCHANGED pending
           ELSE /\ pending' = {Op("findOne")}
                /\ Suspend("findOne")
    /\ UNCHANGED <<config, logins, clockLag, concurrent, message, observed,
                   elapsed, locals, effects>>

\* The lookup settles (736-742): 404 unless the caller owns the thumbnail;
\* otherwise the local file of the image is unlinked if it exists, which may
\* throw, and the record's deletion is issued.  Nothing is asked of
\* Cloudinary.
DeleteLocalFindOneSettles ==
    /\ pc = "findOne"
    /\ handler = DeleteLocal
    /\ \E r \in pending :
        /\ r.op = "findOne"
        /\ \/ LET found == FindOne(req.thumbnailId, req.userId)
              IN  IF found = {}
                  THEN /\ Respond(404, ErrorBody("Thumbnail not found", <<>>))
                       /\ pending' = pending \ {r}
                       /\ UNCHANGED existingThumbnail
                  ELSE /\ existingThumbnail' = CHOOSE t \in found : TRUE
                       /\ \/ /\ pending' = (pending \ {r}) \cup {Op("deleteOne")}
                             /\ Suspend("deleteOne")
                          \/ /\ DeleteLocalCatch([isError |-> TRUE,
                                                  message |-> "EPERM: operation not permitted, unlink"],
                                                 "unlink")
                             /\ pending' = pending \ {r}
           \/ \E err \in MongooseErrors :
                /\ DeleteLocalCatch(err, "findOne")
                /\ pending' = pending \ {r}
                /\ UNCHANGED existingThumbnail
    /\ UNCHANGED <<config, logins, clockLag, concurrent, message, observed,
                   handler, req, elapsed, finalPrompt, originalImageUrl,
                   predictionStatus, predictionOutput, predictionError, base64s,
                   urls, effects>>

\* Thumbnail.deleteOne({ _id: thumbnailId }) settles (742-746).
DeleteLocalDeleteOneSettles ==
    /\ pc = "deleteOne"
    /\ handler = DeleteLocal
    /\ \E r \in pending :
        /\ r.op = "deleteOne"
        /\ pending' = pending \ {r}
        /\ \/ /\ thumbnails' = SelectSeq(thumbnails,
                                         LAMBDA t : t.id # req.thumbnailId)
              /\ Respond(200, [error |-> "", details |-> <<>>, urls |-> <<>>,
                               message |-> "Thumbnail deleted successfully"])
           \/ \E err \in MongooseErrors :
                /\ DeleteLocalCatch(err, "deleteOne")
                /\ UNCHANGED thumbnails
    /\ UNCHANGED <<config, logins, clockLag, concurrent, message, observed,
                   handler, req, elapsed, locals, cloud, tmpFile, submits, polls,
                   cancels, pollIssuedAt, checkedLateAt, downloaded,
                   cancelResult>>

DeleteThumbnail ==
    \/ CallDeleteThumbnail
    \/ DeleteFindOneSettles
    \/ DestroySettles
    \/ DeleteOneSettles
    \/ CallDeleteLocal
    \/ DeleteLocalFindOneSettles
    \/ DeleteLocalDeleteOneSettles

Next == GenerateImages \/ EditImage \/ DeleteThumbnail \/ AuthMiddlewareRejects

Spec == Init /\ [][Next]_vars

\* ------------------------------------------- OpenRouter chat completions
\* The two generateImages handlers that ask OpenRouter for the image in one
\* chat completion: Chat stores every image of the answer, Sharp resizes and
\* stores the first.
\* State that only the Replicate handlers touch.
polling == <<elapsed, existingThumbnail, predictionStatus, predictionOutput,
             predictionError, polls, cancels, pollIssuedAt, checkedLateAt,
             cancelResult, observed>>

\* message.content and message.images: the content is text that may hold
\* data URIs, an image is a data URI or a remote URL.  A string is its
\* scheme and the rest.
RemoteUrl(u) == [prefix |-> "https", payload |-> u]
Text == [prefix |-> "text", payload |-> <<>>]
NoSource == [prefix |-> "", payload |-> <<>>]
ImageSources == {DataUri(BytesAt("a")), RemoteUrl("b")}
Contents == {<<>>, <<Text>>, <<Text, DataUri(BytesAt("c"))>>}
ChatMessages == [images : SeqsUpTo(ImageSources, MaxOut), content : Contents]

\* src.startsWith("data:image")
StartsWithDataImage(src) == src.prefix = "data:image/png;base64"
\* content.match(/data:image\/(png|jpeg|jpg);base64,([^"\s]+)/gi) || []
Match(content) == SelectSeq(content, StartsWithDataImage)

\* part_007 238-241: the data URIs of the content, then the urls of the images.
ExtractAll(m) == Match(m.content) \o m.images

\* generate.controller.ts 635-648: the url of the first image, else the first
\* data URI of the content, else null.
ExtractFirst(m) ==
    IF Len(m.images) >= 1 THEN m.images[1]
    ELSE IF Len(Match(m.content)) >= 1 THEN Match(m.content)[1]
    ELSE NoSource

\* The bytes the handler holds for a source: decoded from the data URI, or
\* fetched from the remote URL.
BufferOf(src) ==
    IF StartsWithDataImage(src) THEN Base64Decode(SplitComma(src)[2])
    ELSE BytesAt(src.payload)
\* sharp(imageBuffer).resize(1280, 720, {fit: "inside"}).toFormat("png")
Resize(bytes) == <<"png within 1280x720", bytes>>
SharpErrors == {[isError |-> TRUE, message |-> "Input buffer contains unsupported image format"]}

\* The key check and the chat completion request (part_007 175-236).
CheckKeyAndAsk(rest) ==
    IF ~OPENROUTER_API_KEY
    THEN /\ Respond(500, ErrorBody("AI service configuration missing",
                <<"OpenRouter API key is required for image generation. Please check your environment variables.">>))
         /\ pending' = rest
         /\ UNCHANGED submits
    ELSE /\ pending' = rest \cup {Op("chat")}
         /\ submits' = submits + 1
         /\ Suspend("chat")

\* part_007 141-236: the handler runs to its first await.
CallChatGenerateImages ==
    /\ pc = "idle"
    /\ \E prompt \in Prompts, queryRewrite \in Rewrites,
          userId \in {Falsy} \cup Users, file \in BOOLEAN :
        /\ handler' = Chat
        /\ req' = [NoRequest EXCEPT !.prompt = prompt, !.queryRewrite = queryRewrite,
                                    !.userId = userId, !.file = file]
        /\ tmpFile' = file
        /\ IF prompt = Falsy
           THEN /\ Respond(400, ErrorBody("Prompt is required", <<>>))
                /\ UNCHANGED <<finalPrompt, pending, submits>>
           ELSE IF userId = Falsy
           THEN /\ Respond(401, ErrorBody("Not authenticated", <<>>))
                /\ UNCHANGED <<finalPrompt, pending, submits>>
           ELSE /\ finalPrompt' = (IF queryRewrite # Falsy THEN queryRewrite ELSE prompt)
                /\ IF file
                   THEN /\ pending' = {Op("referenceUpload")}
                        /\ Suspend("referenceUpload")
                        /\ UNCHANGED submits
                   ELSE CheckKeyAndAsk({})
    /\ UNCHANGED <<config, logins, clockLag, concurrent, polling, message,
                   originalImageUrl, base64s, urls, downloaded, cloud,
                   thumbnails>>

\* part_007 155-236: the upload of the reference file settles.
ChatReferenceUploadSettles ==
    /\ pc = "referenceUpload"
    /\ handler = Chat
    /\ \E r \in pending :
        /\ r.op = "referenceUpload"
        /\ \/ /\ cloud' = Append(cloud, [folder |-> "reference-images",
                                         data |-> DataUri(BytesAt("ref"))])
              /\ originalImageUrl' = SecureUrl("reference-images", Len(cloud) + 1)
              /\ tmpFile' = FALSE
              /\ CheckKeyAndAsk(pending \ {r})
           \/ /\ tmpFile' = FALSE
              /\ Respond(500, ErrorBody("Failed to upload reference image", <<>>))
              /\ pending' = pending \ {r}
              /\ UNCHANGED <<cloud, originalImageUrl, submits>>
    /\ UNCHANGED <<config, logins, clockLag, concurrent, polling, message, handler, req,
                   finalPrompt, base64s, urls, downloaded, thumbnails>>

\* The loop `for (const src of base64s)` of part_007 at its test (247-254):
\* a data URI is decoded and uploaded, a remote URL is fetched first; after
\* the last source the urls are sent (284).
ProcessNext(list, k, stored, rest) ==
    IF k > Len(list)
    THEN /\ pending' = rest
         /\ Respond(200, [error |-> "", details |-> <<>>, urls |-> stored])
    ELSE IF StartsWithDataImage(list[k])
    THEN /\ pending' = rest \cup {Op("upload")}
         /\ Suspend("upload")
    ELSE /\ pending' = rest \cup {[op |-> "download", idx |-> k]}
         /\ Suspend("download")

\* The chat completion settles (part_007 191-254).
ChatSettles ==
    /\ pc = "chat"
    /\ handler = Chat
    /\ \E r \in pending :
        /\ r.op = "chat"
        /\ \/ \E m \in ChatMessages :
                /\ message' = m
                /\ base64s' = ExtractAll(m)
                /\ IF Len(ExtractAll(m)) = 0
                   THEN /\ Respond(500, ErrorBody("No image received", <<>>))
                        /\ pending' = pending \ {r}
                   ELSE ProcessNext(ExtractAll(m), 1, <<>>, pending \ {r})
           \/ \E err \in AxiosErrors :
                /\ Catch(err, "chat")
                /\ pending' = pending \ {r}
                /\ UNCHANGED <<message, base64s>>
    /\ UNCHANGED <<config, logins, clockLag, concurrent, polling, handler, req,
                   finalPrompt, originalImageUrl, urls, downloaded, cloud,
                   thumbnails, tmpFile, submits>>

\* axios.get(src) of a remote image settles (part_007 252-277): the upload is
\* issued, or the rejection leaves the loop for the catch block.
ChatDownloadSettles ==
    /\ pc = "download"
    /\ handler = Chat
    /\ \E r \in pending :
        /\ r.op = "download"
        /\ \/ /\ downloaded' = Append(downloaded, [idx |-> r.idx, ok |-> TRUE])
              /\ pending' = (pending \ {r}) \cup {Op("upload")}
              /\ Suspend("upload")
           \/ \E err \in AxiosErrors :
                /\ downloaded' = Append(downloaded, [idx |-> r.idx, ok |-> FALSE])
                /\ Catch(err, "download")
                /\ pending' = pending \ {r}
    /\ UNCHANGED <<config, logins, clockLag, concurrent, polling, message, handler, req,
                   finalPrompt, originalImageUrl, base64s, urls, cloud,
                   thumbnails, tmpFile, submits>>

\* cloudinary.uploader.upload of the source the loop is at settles (part_007
\* 256-282).
ChatUploadSettles ==
    /\ pc = "upload"
    /\ handler = Chat
    /\ \E r \in pending :
        /\ r.op = "upload"
        /\ \/ /\ cloud' = Append(cloud, [folder |-> "thumbnails",
                            data |-> DataUri(BufferOf(base64s[Len(urls) + 1]))])
              /\ urls' = Append(urls, SecureUrl("thumbnails", Len(cloud) + 1))
              /\ pending' = (pending \ {r}) \cup {Op("save")}
              /\ Suspend("save")
           \/ \E err \in CloudinaryErrors :
                /\ Catch(err, "upload")
                /\ pending' = pending \ {r}
                /\ UNCHANGED <<cloud, urls>>
    /\ UNCHANGED <<config, logins, clockLag, concurrent, polling, message, handler, req,
                   finalPrompt, originalImageUrl, base64s, downloaded,
                   thumbnails, tmpFile, submits>>

\* The save of the record settles (part_007 275-284) and the loop goes on.
ChatSaveSettles ==
    /\ pc = "save"
    /\ handler = Chat
    /\ \E r \in pending :
        /\ r.op = "save"
        /\ \/ /\ thumbnails' = Append(thumbnails,
                                      NewThumbnail(handler, urls[Len(urls)]))
              /\ ProcessNext(base64s, Len(urls) + 1, urls, pending \ {r})
           \/ \E err \in MongooseErrors :
                /\ Catch(err, "save")
                /\ pending' = pending \ {r}
                /\ UNCHANGED thumbnails
    /\ UNCHANGED <<config, logins, clockLag, concurrent, polling, message, handler, req,
                   finalPrompt, originalImageUrl, base64s, urls, downloaded,
                   cloud, tmpFile, submits>>

ChatGenerateImages ==
    \/ CallChatGenerateImages
    \/ ChatReferenceUploadSettles
    \/ ChatSettles
    \/ ChatDownloadSettles
    \/ ChatUploadSettles
    \/ ChatSaveSettles

\* generate.controller.ts 599-632: req.body carries originalImageUrl; the
\* handler runs to its first await.
CallSharpGenerateImages ==
    /\ pc = "idle"
    /\ \E prompt \in Prompts, queryRewrite \in Rewrites,
          userId \in {Falsy} \cup Users,
          original \in {NoUrl, SecureUrl("reference-images", 1)} :
        /\ handler' = Sharp
        /\ req' = [NoRequest EXCEPT !.prompt = prompt, !.queryRewrite = queryRewrite,
                                    !.userId = userId]
        /\ originalImageUrl' = original
        /\ IF prompt = Falsy
           THEN /\ Respond(400, ErrorBody("Prompt is required", <<>>))
                /\ UNCHANGED <<finalPrompt, pending, submits>>
           ELSE IF userId = Falsy
           THEN /\ Respond(401, ErrorBody("User not authenticated", <<>>))
                /\ UNCHANGED <<finalPrompt, pending, submits>>
           ELSE IF ~OPENROUTER_API_KEY
           THEN /\ Respond(503, ErrorBody("API key not configured. Please set OPENROUTER_API_KEY in your environment variables.", <<>>))
                /\ UNCHANGED <<finalPrompt, pending, submits>>
           ELSE /\ finalPrompt' = (IF queryRewrite # Falsy THEN queryRewrite ELSE prompt)
                /\ pending' = {Op("chat")}
                /\ submits' = submits + 1
                /\ Suspend("chat")
    /\ UNCHANGED <<config, logins, clockLag, concurrent, polling, message, base64s, urls,
                   downloaded, cloud, thumbnails, tmpFile>>

\* The chat completion settles (617-665): the first image is taken.
SharpChatSettles ==
    /\ pc = "chat"
    /\ handler = Sharp
    /\ \E r \in pending :
        /\ r.op = "chat"
        /\ \/ \E m \in ChatMessages :
                /\ message' = m
                /\ IF ExtractFirst(m) = NoSource
                   THEN /\ Respond(500, ErrorBody("No image received", <<>>))
                        /\ pending' = pending \ {r}
                        /\ UNCHANGED base64s
                   ELSE /\ base64s' = <<ExtractFirst(m)>>
                        /\ IF StartsWithDataImage(ExtractFirst(m))
                           THEN /\ pending' = (pending \ {r}) \cup {Op("resize")}
                                /\ Suspend("resize")
                           ELSE /\ pending' = (pending \ {r})
                                              \cup {[op |-> "download", idx |-> 1]}
                                /\ Suspend("download")
           \/ \E err \in AxiosErrors :
                /\ Catch(err, "chat")
                /\ pending' = pending \ {r}
                /\ UNCHANGED <<message, base64s>>
    /\ UNCHANGED <<config, logins, clockLag, concurrent, polling, handler, req,
                   finalPrompt, originalImageUrl, urls, downloaded, cloud,
                   thumbnails, tmpFile, submits>>

\* The fetch of the remote image settles (661-671).
SharpDownloadSettles ==
    /\ pc = "download"
    /\ handler = Sharp
    /\ \E r \in pending :
        /\ r.op = "download"
        /\ \/ /\ downloaded' = Append(downloaded, [idx |-> r.idx, ok |-> TRUE])
              /\ pending' = (pending \ {r}) \cup {Op("resize")}
              /\ Suspend("resize")
           \/ \E err \in AxiosErrors :
                /\ downloaded' = Append(downloaded, [idx |-> r.idx, ok |-> FALSE])
                /\ Catch(err, "download")
                /\ pending' = pending \ {r}
    /\ UNCHANGED <<config, logins, clockLag, concurrent, polling, message, handler, req,
                   finalPrompt, originalImageUrl, base64s, urls, cloud,
                   thumbnails, tmpFile, submits>>

\* sharp(...).toBuffer() settles (667-686) and the upload stream is opened.
SharpResizeSettles ==
    /\ pc = "resize"
    /\ handler = Sharp
    /\ \E r \in pending :
        /\ r.op = "resize"
        /\ \/ /\ pending' = (pending \ {r}) \cup {Op("upload")}
              /\ Suspend("upload")
           \/ \E err \in SharpErrors :
                /\ Catch(err, "resize")
                /\ pending' = pending \ {r}
    /\ UNCHANGED <<config, logins, clockLag, concurrent, polling, message, handler, req,
                   finalPrompt, originalImageUrl, base64s, urls, downloaded,
                   cloud, thumbnails, tmpFile, submits>>

\* The upload stream calls back (673-700) and the save is issued.
SharpUploadSettles ==
    /\ pc = "upload"
    /\ handler = Sharp
    /\ \E r \in pending :
        /\ r.op = "upload"
        /\ \/ /\ cloud' = Append(cloud, [folder |-> "thumbnails",
                            data |-> [prefix |-> "buffer",
                                      payload |-> Resize(BufferOf(base64s[1]))]])
              /\ urls' = <<SecureUrl("thumbnails", Len(cloud) + 1)>>
              /\ pending' = (pending \ {r}) \cup {Op("save")}
              /\ Suspend("save")
           \/ \E err \in CloudinaryErrors :
                /\ Catch(err, "upload")
                /\ pending' = pending \ {r}
                /\ UNCHANGED <<cloud, urls>>
    /\ UNCHANGED <<config, logins, clockLag, concurrent, polling, message, handler, req,
                   finalPrompt, originalImageUrl, base64s, downloaded,
                   thumbnails, tmpFile, submits>>

\* thumbnail.save() settles (691-703) and the url is sent.
SharpSaveSettles ==
    /\ pc = "save"
    /\ handler = Sharp
    /\ \E r \in pending :
        /\ r.op = "save"
        /\ \/ /\ thumbnails' = Append(thumbnails, NewThumbnail(handler, urls[1]))
              /\ pending' = pending \ {r}
              /\ Respond(200, [error |-> "", details |-> <<>>, urls |-> urls])
           \/ \E err \in MongooseErrors :
                /\ Catch(err, "save")
                /\ pending' = pending \ {r}
                /\ UNCHANGED thumbnails
    /\ UNCHANGED <<config, logins, clockLag, concurrent, polling, message, handler, req,
                   finalPrompt, originalImageUrl, base64s, urls, downloaded,
                   cloud, tmpFile, submits>>

SharpGenerateImages ==
    \/ CallSharpGenerateImages
    \/ SharpChatSettles
    \/ SharpDownloadSettles
    \/ SharpResizeSettles
    \/ SharpUploadSettles
    \/ SharpSaveSettles

\* --------------------------------------------------------------- rewriteQuery
\* The body of a chat completion answer as 113 reads it: data.choices is an
\* array of message contents, or is missing (an error object answered 200).
RewriteData ==
    {[choices |-> Undefined], [choices |-> Array(<<>>)],
     [choices |-> Array(<<Falsy>>)], [choices |-> Array(<<"   ">>)],
     [choices |-> Array(<<" bold red car ">>)]}
\* content.trim()
Trim(content) ==
    IF content = " bold red car " THEN "bold red car"
    ELSE IF content = "   " THEN Falsy
    ELSE content
\* data.choices[0]?.message?.content?.trim() || prompt
Rewritten(data, prompt) ==
    IF Len(data.choices.list) >= 1 /\ Trim(data.choices.list[1]) # Falsy
    THEN Trim(data.choices.list[1])
    ELSE prompt
\* `Enhanced YouTube Thumbnail: ${prompt} - High quality, ...` (82)
FallbackEnhanced(prompt) ==
    <<"Enhanced YouTube Thumbnail: ", prompt,
      " - High quality, eye-catching design with bold text and vibrant colors">>
\* res.json({originalPrompt, rewrittenPrompt, note}) (83-87, 114)
RewriteBody(prompt, rewritten, note) ==
    [error |-> "", details |-> <<>>, urls |-> <<>>, originalPrompt |-> prompt,
     rewrittenPrompt |-> rewritten, note |-> note]

\* The rewriteQuery of part_007 43-138: the steps of 45-119 with a catch
\* block that answers.
Rewrite007 == "rewriteQuery (part_007)"
\* The rewriteQuery of 543-582, which asks through the openai client and
\* reads the key the module read when it was loaded.
RewriteOpenai == "rewriteQuery (openai client)"

\* `${prompt} - Enhanced with vibrant colors, ...` (550)
MockEnhanced(prompt) ==
    <<prompt,
      " - Enhanced with vibrant colors, professional design, and eye-catching elements for YouTube thumbnail">>

\* The catch block of rewriteQuery: that of 115-118 logs the error and
\* returns, so no response is sent; that of part_007 120-137 answers 500
\* by the kind of error, that of 578-581 with one text.
RewriteCatch(err, at) ==
    /\ pc' = "done"
    /\ caught' = at
    /\ thrown' = err
    /\ IF handler = "rewriteQuery"
       THEN UNCHANGED <<res, sent>>
       ELSE /\ sent' = sent + 1
            /\ res' = [status |-> 500,
                       body |-> IF handler = RewriteOpenai
                                THEN ErrorBody("Failed to rewrite query", <<>>)
                                ELSE IF ResponseStatus(err) = 401
                                THEN ErrorBody("AI service authentication failed. Please check your API configuration.",
                                               <<"The OpenRouter API key appears to be invalid or expired.">>)
                                ELSE IF err.isError
                                THEN ErrorBody(err.message, <<>>)
                                ELSE ErrorBody("Failed to rewrite prompt", <<>>)]

\* The key check and the chat completion request (80-112).
CheckKeyAndRewrite(prompt, rest) ==
    IF ~OPENROUTER_API_KEY
    THEN /\ Respond(200, RewriteBody(prompt, FallbackEnhanced(prompt),
                "Using fallback enhancement due to missing API configuration"))
         /\ pending' = rest
         /\ UNCHANGED submits
    ELSE /\ pending' = rest \cup {Op("rewrite")}
         /\ submits' = submits + 1
         /\ Suspend("rewrite")

\* POST /generate/rewrite-query reaches rewriteQuery behind multer, without
\* authMiddleware; the handler runs to its first await (45-60, or 80-112
\* without a file; part_007 43-58, or 77-117).
CallRewriteQuery ==
    /\ pc = "idle"
    /\ \E h \in {"rewriteQuery", Rewrite007}, prompt \in Prompts, file \in BOOLEAN :
        /\ handler' = h
        /\ req' = [NoRequest EXCEPT !.prompt = prompt, !.file = file]
        /\ tmpFile' = file
        /\ IF prompt = Falsy
           THEN /\ Respond(400, ErrorBody("Prompt required", <<>>))
                /\ UNCHANGED <<pending, submits>>
           ELSE IF file
           THEN /\ pending' = {Op("referenceUpload")}
                /\ Suspend("referenceUpload")
                /\ UNCHANGED submits
           ELSE CheckKeyAndRewrite(prompt, {})
    /\ UNCHANGED <<config, logins, clockLag, concurrent, polling, message, finalPrompt,
                   originalImageUrl, base64s, urls, downloaded, cloud,
                   thumbnails>>

\* The upload of the reference file settles (57-88; part_007 55-86): the
\* temporary file is deleted either way.
RewriteUploadSettles ==
    /\ pc = "referenceUpload"
    /\ handler \in {"rewriteQuery", Rewrite007}
    /\ \E r \in pending :
        /\ r.op = "referenceUpload"
        /\ \/ /\ cloud' = Append(cloud, [folder |-> "reference-images",
                                         data |-> DataUri(BytesAt("ref"))])
              /\ originalImageUrl' = SecureUrl("reference-images", Len(cloud) + 1)
              /\ tmpFile' = FALSE
              /\ CheckKeyAndRewrite(req.prompt, pending \ {r})
           \/ /\ tmpFile' = FALSE
              /\ Respond(500, ErrorBody("Failed to upload reference image", <<>>))
              /\ pending' = pending \ {r}
              /\ UNCHANGED <<cloud, originalImageUrl, submits>>
    /\ UNCHANGED <<config, logins, clockLag, concurrent, polling, message, handler, req,
                   finalPrompt, base64s, urls, downloaded, thumbnails>>

\* The chat completion settles (94-118; part_007 92-137): the rewritten
\* prompt is answered; a rejection, or a body without choices (reading [0]
\* of undefined throws a TypeError), reaches the catch block.
RewriteSettles ==
    /\ pc = "rewrite"
    /\ handler \in {"rewriteQuery", Rewrite007}
    /\ \E r \in pending :
        /\ r.op = "rewrite"
        /\ pending' = pending \ {r}
        /\ \/ \E data \in RewriteData :
                IF data.choices.def
                THEN Respond(200, RewriteBody(req.prompt,
                                              Rewritten(data, req.prompt), Falsy))
                ELSE RewriteCatch([isError |-> TRUE,
                        message |-> "Cannot read properties of undefined (reading '0')"],
                        "rewrite")
           \/ \E err \in AxiosErrors : RewriteCatch(err, "rewrite")
    /\ UNCHANGED <<config, logins, clockLag, concurrent, polling, message, handler, req,
                   finalPrompt, originalImageUrl, base64s, urls, downloaded,
                   cloud, thumbnails, tmpFile, submits>>

\* The rewriteQuery of 543-582 runs to its first await (543-574): it reads
\* neither req.file nor Cloudinary, so a file multer wrote stays on disk.
CallRewriteOpenai ==
    /\ pc = "idle"
    /\ \E prompt \in Prompts, file \in BOOLEAN :
        /\ handler' = RewriteOpenai
        /\ req' = [NoRequest EXCEPT !.prompt = prompt, !.file = file]
        /\ tmpFile' = file
        /\ IF prompt = Falsy
           THEN /\ Respond(400, ErrorBody("Prompt is required", <<>>))
                /\ UNCHANGED <<pending, submits>>
           ELSE IF ~OPENROUTER_API_KEY
           THEN /\ Respond(200, RewriteBody(prompt, MockEnhanced(prompt),
                        "Mock enhancement - add OPENROUTER_API_KEY to .env for AI-powered enhancement"))
                /\ UNCHANGED <<pending, submits>>
           ELSE /\ pending' = {Op("rewrite")}
                /\ submits' = submits + 1
                /\ Suspend("rewrite")
    /\ UNCHANGED <<config, logins, clockLag, concurrent, polling, message,
                   finalPrompt, originalImageUrl, base64s, urls, downloaded,
                   cloud, thumbnails>>

\* openai.chat.completions.create settles (566-581).
RewriteOpenaiSettles ==
    /\ pc = "rewrite"
    /\ handler = RewriteOpenai
    /\ \E r \in pending :
        /\ r.op = "rewrite"
        /\ pending' = pending \ {r}
        /\ \/ \E data \in RewriteData :
                IF data.choices.def
                THEN Respond(200, RewriteBody(req.prompt,
                                              Rewritten(data, req.prompt), Falsy))
                ELSE RewriteCatch([isError |-> TRUE,
                        message |-> "Cannot read properties of undefined (reading '0')"],
                        "rewrite")
           \/ \E err \in AxiosErrors \cup {[isError |-> TRUE,
                                             message |-> "Connection error."]} :
                RewriteCatch(err, "rewrite")
    /\ UNCHANGED <<config, logins, clockLag, concurrent, polling, message,
                   handler, req, finalPrompt, originalImageUrl, base64s, urls,
                   downloaded, cloud, thumbnails, tmpFile, submits>>

RewriteQuery ==
    \/ CallRewriteQuery
    \/ RewriteUploadSettles
    \/ RewriteSettles
    \/ CallRewriteOpenai
    \/ RewriteOpenaiSettles

NextChat == ChatGenerateImages \/ SharpGenerateImages \/ RewriteQuery

SpecChat == InitChat /\ [][NextChat]_vars

\* Every awaited call of a chat-completion handler is answered or fails.
SpecChatLive == SpecChat /\ WF_vars(NextChat)


\* ------------------------------------------------- concurrent requests
\* Several generateImages calls (124-312) in flight at once, each from its
\* own client.  A call's locals live in its own activation of the async
\* function; the calls share the Replicate account, Cloudinary and the
\* Thumbnail collection.  Replicate keeps one state per prediction and
\* answers a status poll with the state of the prediction named in the URL.
\* A client may drop its connection at any time; the handler registers no
\* listener for it.  The clock is not part of this specification: whether
\* the deadline has passed when a loop test runs is the environment's choice.

\* State that only the single-request specifications touch.
single == <<handler, pc, req, elapsed, finalPrompt, originalImageUrl,
            existingThumbnail, predictionStatus, predictionOutput,
            predictionError, base64s, urls, pending, tmpFile, submits, polls,
            cancels, pollIssuedAt, checkedLateAt, downloaded, cancelResult,
            res, sent, caught, thrown, observed, message>>

\* The output Replicate produces for the prediction with the given id.
OutputOf(id) == <<<<"output of prediction", id>>>>

\* The body of the answer about a prediction in the given state.
DataOf(id, p) ==
    [status |-> p.status,
     output |-> IF p.status = "succeeded" THEN Array(OutputOf(id)) ELSE Undefined,
     error |-> IF p.status = "failed" THEN "NSFW content detected" ELSE Falsy]

\* Mutant: the prediction id is kept in a module-level variable, which holds
\* the id of the latest submission of any call.
PredictionId_ModuleLevel(c) == Len(predictions)

\* predictionId of the call's activation (205).
PredictionId(c) == calls[c].predictionId

\* A request issued to Replicate or fetched by the handler of call c.
Request(c, kind, id) ==
    [call |-> c, kind |-> kind, id |-> id, disconnected |-> calls[c].disconnected]

\* The call after the loop test ran with the values just read (210-223,
\* 235-246), `late` telling whether Date.now() - startTime exceeded the
\* timeout: suspended at the cancel, at the sleep or at the first download,
\* or answered.
AfterRead(call, status, output, error, late) ==
    LET read == [call EXCEPT !.predictionStatus = status,
                             !.predictionOutput = output,
                             !.predictionError = error,
                             !.target = 0]
    IN  IF status \in InProgress
        THEN IF late
             THEN [read EXCEPT !.pc = "cancel"]
             ELSE [read EXCEPT !.pc = "sleep"]
        ELSE IF GenerationFailed(status, output)
        THEN [read EXCEPT !.pc = "done",
                 !.res = [status |-> 500,
                          body |-> ErrorBody("Image generation failed",
                                             FailureDetails(error, status))]]
        ELSE [read EXCEPT !.pc = "download"]

\* The cancel request of the deadline check (212-216), if the call is at it.
CancelIssued(c, after) ==
    IF after.pc = "cancel" THEN {Request(c, "cancel", after.predictionId)} ELSE {}

\* The call after its download loop reached its test (244, 253-259).
AfterFetch(call) ==
    IF call.fetched < Len(call.predictionOutput.list)
    THEN [call EXCEPT !.pc = "download"]
    ELSE IF NoImageData(call.base64s)
    THEN [call EXCEPT !.pc = "done",
             !.res = [status |-> 500,
                      body |-> ErrorBody("No image data received from Replicate", <<>>)]]
    ELSE [call EXCEPT !.pc = "upload"]

\* The call after its storage loop reached its test (259, 289).
AfterSave(call) ==
    IF Len(call.urls) < Len(call.base64s)
    THEN [call EXCEPT !.pc = "upload"]
    ELSE [call EXCEPT !.pc = "done",
             !.res = [status |-> 200,
                      body |-> [error |-> "", details |-> <<>>, urls |-> call.urls]]]

\* The catch block (290-311) answers.
Caught(call, err) ==
    [call EXCEPT !.pc = "done", !.caught = TRUE, !.target = 0,
                 !.res = [status |-> 500, body |-> CatchBody("generateImages", err)]]

InitConcurrent ==
    /\ REPLICATE_API_TOKEN \in BOOLEAN
    /\ REPLICATE_TIMEOUT = 1
    /\ REPLICATE_POLL_INTERVAL = 1
    /\ OPENROUTER_API_KEY = TRUE
    /\ NoCall
    /\ accounts = SeededUsers
    /\ deployed = "auth.controller"

\* The user that client c is logged in as.
UserOf(c) == IF c = "c1" THEN "u1" ELSE "u2"

\* The body of the answer of 163-166.
TokenMissing ==
    ErrorBody("AI service configuration missing",
              <<"Replicate API token is required for image generation. Please check your environment variables.">>)

\* POST /generate/images of client c reaches generateImages without a
\* reference file; the handler runs to the submission (124-203).
Receive(c) ==
    /\ calls[c].pc = "idle"
    /\ \E prompt \in Prompts, userId \in {Falsy, UserOf(c)} :
        LET call == [calls[c] EXCEPT !.prompt = prompt, !.userId = userId]
        IN  IF prompt = Falsy
            THEN /\ calls' = [calls EXCEPT ![c] = [call EXCEPT !.pc = "done",
                        !.res = [status |-> 400,
                                 body |-> ErrorBody("Prompt is required", <<>>)]]]
                 /\ UNCHANGED requests
            ELSE IF userId = Falsy
            THEN /\ calls' = [calls EXCEPT ![c] = [call EXCEPT !.pc = "done",
                        !.res = [status |-> 401,
                                 body |-> ErrorBody("Not authenticated", <<>>)]]]
                 /\ UNCHANGED requests
            ELSE IF ~REPLICATE_API_TOKEN
            THEN /\ calls' = [calls EXCEPT ![c] = [call EXCEPT !.pc = "done",
                        !.res = [status |-> 500, body |-> TokenMissing]]]
                 /\ UNCHANGED requests
            ELSE /\ calls' = [calls EXCEPT ![c] = [call EXCEPT !.pc = "submit"]]
                 /\ requests' = requests \cup {Request(c, "submit", 0)}
    /\ UNCHANGED <<config, logins, clockLag, single, predictions, cloud, thumbnails>>

\* POST /v1/predictions of call c settles (199-223): Replicate has created a
\* prediction for the call's prompt and answers its id and status, or the
\* request is rejected.
SubmitAnswered(c) ==
    /\ calls[c].pc = "submit"
    /\ \/ \E status \in InProgress, late \in BOOLEAN :
            LET id == Len(predictions) + 1
                after == AfterRead([calls[c] EXCEPT !.predictionId = id], status,
                                   Undefined, Falsy, late)
            IN  /\ predictions' = Append(predictions,
                        [input |-> calls[c].prompt, by |-> c, status |-> status])
                /\ calls' = [calls EXCEPT ![c] = after]
                /\ requests' = requests \cup CancelIssued(c, after)
       \/ \E err \in AxiosErrors :
            /\ calls' = [calls EXCEPT ![c] = Caught(calls[c], err)]
            /\ UNCHANGED <<predictions, requests>>
    /\ UNCHANGED <<config, logins, clockLag, single, cloud, thumbnails>>

\* Replicate works on a prediction.
Progress(id) ==
    /\ id \in 1..Len(predictions)
    /\ \E next \in {"processing", "succeeded", "failed"} :
        /\ \/ predictions[id].status = "starting" /\ next = "processing"
           \/ predictions[id].status = "processing" /\ next # "processing"
        /\ predictions' = [predictions EXCEPT ![id].status = next]
    /\ UNCHANGED <<config, logins, clockLag, single, calls, requests, cloud, thumbnails>>

\* The sleep of call c ends and its status poll is issued (223-228).
PollIssued(c) ==
    /\ calls[c].pc = "sleep"
    /\ calls' = [calls EXCEPT ![c].pc = "poll", ![c].target = PredictionId(c)]
    /\ requests' = requests \cup {Request(c, "poll", PredictionId(c))}
    /\ UNCHANGED <<config, logins, clockLag, single, predictions, cloud, thumbnails>>

\* GET /v1/predictions/{id} of call c settles (225-246): Replicate answers
\* the state of the prediction the URL names, or the request is rejected.
PollAnswered(c) ==
    /\ calls[c].pc = "poll"
    /\ \/ \E late \in BOOLEAN :
            LET data == DataOf(calls[c].target, predictions[calls[c].target])
                after == AfterRead(calls[c], data.status, data.output, data.error,
                                   late)
            IN  /\ calls' = [calls EXCEPT ![c] = after]
                /\ requests' = requests \cup CancelIssued(c, after)
       \/ \E err \in AxiosErrors :
            /\ calls' = [calls EXCEPT ![c] = Caught(calls[c], err)]
            /\ UNCHANGED requests
    /\ UNCHANGED <<config, logins, clockLag, single, predictions, cloud, thumbnails>>

\* The awaited cancel POST of call c settles and the 504 is sent (212-220);
\* a fulfilled cancel has canceled the prediction it named.
CancelAnswered(c) ==
    /\ calls[c].pc = "cancel"
    /\ \E fulfilled \in BOOLEAN :
        /\ predictions' =
              IF fulfilled /\ predictions[calls[c].predictionId].status \in InProgress
              THEN [predictions EXCEPT ![calls[c].predictionId].status = "canceled"]
              ELSE predictions
        /\ calls' = [calls EXCEPT ![c].pc = "done",
                        ![c].res = [status |-> 504,
                                    body |-> ErrorBody("Image generation timed out",
                        <<"Replicate prediction exceeded the configured timeout">>)]]
    /\ UNCHANGED <<config, logins, clockLag, single, requests, cloud, thumbnails>>

\* One output fetch of call c settles (244-259).
OutputFetched(c) ==
    /\ calls[c].pc = "download"
    /\ \E ok \in BOOLEAN :
        LET call == calls[c]
            url == call.predictionOutput.list[call.fetched + 1]
        IN  calls' = [calls EXCEPT ![c] = AfterFetch(
                [call EXCEPT !.fetched = call.fetched + 1,
                             !.base64s = IF ok
                                         THEN PushImage(call.base64s, DataUri(BytesAt(url)))
                                         ELSE call.base64s])]
    /\ UNCHANGED <<config, logins, clockLag, single, predictions, requests, cloud,
                   thumbnails>>

\* The upload of the image the storage loop of call c is at settles (259-279).
Uploaded(c) ==
    /\ calls[c].pc = "upload"
    /\ \/ /\ cloud' = Append(cloud, [folder |-> "thumbnails",
                        data |-> ReEncode(calls[c].base64s[Len(calls[c].urls) + 1])])
          /\ calls' = [calls EXCEPT ![c].pc = "save",
                          ![c].urls = Append(calls[c].urls,
                                             SecureUrl("thumbnails", Len(cloud) + 1))]
       \/ \E err \in CloudinaryErrors :
            /\ calls' = [calls EXCEPT ![c] = Caught(calls[c], err)]
            /\ UNCHANGED cloud
    /\ UNCHANGED <<config, logins, clockLag, single, predictions, requests, thumbnails>>

\* The save of the record of call c settles (280-289).
Saved(c) ==
    /\ calls[c].pc = "save"
    /\ \/ /\ thumbnails' = Append(thumbnails,
                [id |-> Len(thumbnails) + 1, userId |-> calls[c].userId,
                 prompt |-> <<calls[c].prompt>>,
                 imageUrl |-> calls[c].urls[Len(calls[c].urls)],
                 originalImageUrl |-> NoUrl, queryRewrite |-> Falsy])
          /\ calls' = [calls EXCEPT ![c] = AfterSave(calls[c])]
       \/ \E err \in MongooseErrors :
            /\ calls' = [calls EXCEPT ![c] = Caught(calls[c], err)]
            /\ UNCHANGED thumbnails
    /\ UNCHANGED <<config, logins, clockLag, single, predictions, requests, cloud>>

\* The client of call c drops the connection before the response: no
\* listener of the handler runs (124-312 register none).
Disconnect(c) ==
    /\ calls[c].pc \notin {"idle", "done"}
    /\ ~calls[c].disconnected
    /\ calls' = [calls EXCEPT ![c].disconnected = TRUE]
    /\ UNCHANGED <<config, logins, clockLag, single, predictions, requests, cloud,
                   thumbnails>>

NextConcurrent ==
    \/ \E c \in Callers :
        \/ Receive(c)
        \/ SubmitAnswered(c)
        \/ PollIssued(c)
        \/ PollAnswered(c)
        \/ CancelAnswered(c)
        \/ OutputFetched(c)
        \/ Uploaded(c)
        \/ Saved(c)
        \/ Disconnect(c)
    \/ \E id \in 1..Len(predictions) : Progress(id)

SpecConcurrent == InitConcurrent /\ [][NextConcurrent]_vars

\* ----------------------------------------------------------- authentication
\* Requests to the authentication handlers of one server.  Express serves
\* them concurrently: each client has at most one request in flight, and
\* while a handler awaits, the other request and the clock go on.
\* State that the authentication handlers do not touch.
generation == <<clockLag, single, concurrent, cloud, thumbnails>>

Emails == {Falsy, "a@x.io"}
\* req.body.password of a login: none, the password of the account, another.
Passwords == {Falsy, "Right@1pw", "wrong"}
\* req.body.password of a registration: "Right@1pw" is matched by the
\* expression of part_005 106, "Right#1pw" has nine characters and none of
\* the special characters of the expression, "wrong" has five characters.
RegisterPasswords == {Falsy, "Right@1pw", "Right#1pw", "wrong"}
\* req.body.idToken: none, one that Google rejects, one signed for an email.
IdTokens == {Falsy, "forged", "idToken a"}
\* payload.email of the ticket of a token Google signed (part_008 170, 362).
PayloadEmail(idToken) == IF idToken = "idToken a" THEN "a@x.io" ELSE Falsy
\* req.body.email of a registration: none, an address and one without @.
RegisterEmails == {Falsy, "a@x.io", "a.x.io"}

\* The older login, register and googleAuth of part_008 (253-430) and the
\* loginUser and registerUser of part_001.
LoginPlain == "login (part_008 304-342)"
RegisterPlain == "register (part_008 261-302)"
GooglePlain == "googleAuth (part_008 344-403)"
LoginUser001 == "loginUser (part_001 56-93)"
RegisterUser001 == "registerUser (part_001 14-53)"
LoginFunctions == {"login", LoginPlain, "loginUser", LoginUser001}
RegisterFunctions == {"register", RegisterPlain, "registerUser", RegisterUser001}
GoogleFunctions == {"googleAuth", GooglePlain}

\* The versions of the server: the routes of auth.routes.ts 1-12 with the
\* controller of part_008 1-252 or of part_008 253-430, and the routes of
\* auth.routes.ts 13-27 with singleUserAuth.ts or with part_001.
Versions ==
    {"auth.controller", "auth.controller (part_008 253-430)", "singleUserAuth",
     "singleUserAuth (part_001)"}

\* The handlers a version mounts on /auth/login, /auth/register and
\* /auth/google (auth.routes.ts 7-9, 21-24); a process that does not run
\* mounts none.
Mounted(version) ==
    CASE version = "auth.controller" -> {"login", "register", "googleAuth"}
      [] version = "auth.controller (part_008 253-430)"
            -> {LoginPlain, RegisterPlain, GooglePlain}
      [] version = "singleUserAuth" -> {"loginUser", "registerUser", "googleAuth"}
      [] version = "singleUserAuth (part_001)"
            -> {LoginUser001, RegisterUser001, GooglePlain}
      [] OTHER -> {}

\* minlength of the password path in the user model of the version: 8 in
\* part_005 70-138, which login of part_008 79-144 needs for its lock
\* methods, 6 in part_005 30-69, the model of the versions before the lock.
MinLength(version) ==
    IF version \in {"auth.controller", "singleUserAuth"} THEN 8 ELSE 6

\* password.length of the passwords of the requests and of seed.ts 6.
PasswordLength(password) ==
    CASE password \in {"Right@1pw", "Right#1pw"} -> 9
      [] password = "demo123" -> 7
      [] OTHER -> 5

\* passwordRegex.test(this.password) on those passwords (part_005 106-107).
PasswordRegexTest(password) == password = "Right@1pw"

\* Saving a new document with a password: the minlength validator runs
\* first and rejects with a ValidationError, then the pre-save hook, which
\* in part_005 102-113 throws an Error for a password the expression does
\* not match, and else hashes the password (part_005 57-61, 102-113).
PreSave(version, password) ==
    IF PasswordLength(password) < MinLength(version) THEN "ValidationError"
    ELSE IF MinLength(version) = 8 /\ ~PasswordRegexTest(password) THEN "Error"
    ELSE "hashed"

\* userSchema.methods.isLocked (part_005 120-122)
IsLocked(doc, time) == doc.lockUntil # 0 /\ doc.lockUntil > time

\* userSchema.methods.handleFailedLogin before its save (part_005 124-128)
HandleFailedLogin(doc, time) ==
    LET attempts == doc.failedLoginAttempts + 1
    IN  [doc EXCEPT !.failedLoginAttempts = attempts,
                    !.lockUntil = IF attempts >= MaxFailedAttempts
                                  THEN time + LockTime ELSE doc.lockUntil]

\* /^[^\s@]+@[^\s@]+\.[^\s@]+$/ on the addresses of RegisterEmails (part_008
\* 21-22)
EmailFormatOk(email) == email = "a@x.io"

\* document.save(): the fields that differ from the loaded document are
\* written; a field that was assigned the value it was loaded with is written
\* when Mongoose sends the whole document and left as stored when it sends
\* the modified paths.
SaveDoc(stored, loaded, changed, whole) ==
    IF whole THEN changed
    ELSE [f \in DOMAIN stored |->
            IF changed[f] # loaded[f] THEN changed[f] ELSE stored[f]]

\* The collection after a document is inserted.
Insert(docs, email, doc) ==
    [e \in DOMAIN docs \cup {email} |-> IF e = email THEN doc ELSE docs[e]]

\* jwt.sign({ userId, email }, JWT_SECRET, { expiresIn: "7d" })
Token(email) == <<"jwt", email>>

\* The handler of the request answers and returns.  The handlers of
\* part_008 1-252 answer with a code next to the error.
Reply(a, status, error, code, token) ==
    [a EXCEPT !.pc = "done", !.fn = "none", !.email = Falsy, !.password = Falsy,
              !.idToken = Falsy, !.user = NoUser, !.loaded = NoUser,
              !.res = [status |-> status,
                       body |-> LoginBody(error,
                                    IF a.fn \in {"login", "register", "googleAuth"}
                                    THEN code ELSE Falsy,
                                    token)]]

\* The catch blocks (part_008 65-76, 137-143, 208-214, 299-301, 339-341,
\* 400-402; singleUserAuth.ts 35-38, 59-62; part_001 49-52, 89-92).
AuthCatch(a) ==
    Reply(a, 500,
          CASE a.fn = "login" -> "Login failed. Please try again later."
            [] a.fn = LoginPlain -> "Login failed"
            [] a.fn = "loginUser" -> "Failed to login"
            [] a.fn = LoginUser001 -> "Something went wrong during login"
            [] a.fn = "register" -> "Registration failed. Please try again later."
            [] a.fn = RegisterPlain -> "Registration failed"
            [] a.fn = "registerUser" -> "Failed to register user"
            [] a.fn = RegisterUser001 -> "Something went wrong during registration"
            [] a.fn = "googleAuth" -> "Google authentication failed. Please try again later."
            [] OTHER -> "Google authentication failed",
          "INTERNAL_ERROR", NoToken)

\* The success response with the token (part_008 46-64, 120-136, 189-207).
IssueToken(a, status) == Reply(a, status, Falsy, Falsy, Token(a.email))

\* POST /auth/login reaches login or loginUser; the handler runs to its
\* first await (part_008 79-90, 304-312; singleUserAuth.ts 41-48; part_001
\* 56-64).
CallLogin(c) ==
    /\ auth[c].pc \in {"idle", "done"}
    /\ \E fn \in Mounted(deployed) \cap LoginFunctions, email \in Emails,
          password \in Passwords :
        LET a == [IdleAuth EXCEPT !.fn = fn, !.email = email,
                                  !.password = password]
        IN  auth' = [auth EXCEPT ![c] =
                IF email = Falsy \/ password = Falsy
                THEN Reply(a, 400, "Email and password are required",
                           "VALIDATION_ERROR", NoToken)
                ELSE [a EXCEPT !.pc = "findOne"]]
    /\ UNCHANGED <<config, generation, deployed, accounts, clock>>

\* User.findOne({ email }) settles.  login (part_008 90-107): 401 for an
\* unknown email or an account without password, 423 while the account is
\* locked.  The older login (312-316), loginUser of singleUserAuth.ts
\* (48-51) and loginUser of part_001 (64-73) have no lock test.  Otherwise
\* the password is compared: login keeps the document to change and save
\* it, the others read its password only.
LoginFindOneSettles(c) ==
    LET a == auth[c]
        exists == a.email \in DOMAIN accounts
        found == IF exists THEN accounts[a.email] ELSE NoUser
    IN  /\ a.pc = "findOne"
        /\ a.fn \in LoginFunctions
        /\ \/ auth' = [auth EXCEPT ![c] =
                IF a.fn = "loginUser" /\ ~exists
                THEN Reply(a, 400, "User not found", Falsy, NoToken)
                ELSE IF a.fn = LoginUser001 /\ ~exists
                THEN Reply(a, 400, "Invalid email or password", Falsy, NoToken)
                ELSE IF a.fn = LoginUser001 /\ found.password = Falsy
                THEN Reply(a, 400, "This account uses Google Sign-In", Falsy,
                           NoToken)
                ELSE IF a.fn = LoginPlain /\ (~exists \/ found.password = Falsy)
                THEN Reply(a, 400, "Invalid credentials", Falsy, NoToken)
                ELSE IF a.fn = "login" /\ (~exists \/ found.password = Falsy)
                THEN Reply(a, 401, "Invalid email or password",
                           "INVALID_CREDENTIALS", NoToken)
                ELSE IF a.fn = "login" /\ IsLocked(found, clock)
                THEN Reply(a, 423, "Account temporarily locked due to multiple failed login attempts",
                           "ACCOUNT_LOCKED", NoToken)
                ELSE [a EXCEPT !.pc = "comparePassword",
                               !.user = IF a.fn = "login" THEN found
                                        ELSE [NoUser EXCEPT !.password =
                                                                found.password]]]
           \/ auth' = [auth EXCEPT ![c] = AuthCatch(a)]
        /\ UNCHANGED <<config, generation, deployed, accounts, clock>>

\* comparePassword (part_005 115-118) or bcrypt.compare (part_001 73)
\* settles.  login (part_008 107-118): after a wrong password
\* handleFailedLogin changes the document and saves it; after the right one
\* resetLoginAttempts (part_005 132-138) saves only a document that has
\* failed attempts or a lock, and else the token is issued at once.  The
\* older login (318-321), loginUser (singleUserAuth.ts 51-52) and loginUser
\* of part_001 (74-76) answer 400 or issue the token.
ComparePasswordSettles(c) ==
    LET a == auth[c]
        valid == a.user.password # Falsy /\ Compare(a.password, a.user.password)
    IN  /\ a.pc = "comparePassword"
        /\ auth' = [auth EXCEPT ![c] =
                IF a.fn # "login"
                THEN IF valid THEN IssueToken(a, 200)
                     ELSE Reply(a, 400,
                                IF a.fn = LoginUser001
                                THEN "Invalid email or password"
                                ELSE "Invalid credentials",
                                Falsy, NoToken)
                ELSE IF ~valid
                THEN [a EXCEPT !.pc = "saveFailed", !.loaded = a.user,
                               !.user = HandleFailedLogin(a.user, clock)]
                ELSE IF a.user.failedLoginAttempts > 0 \/ a.user.lockUntil # 0
                THEN [a EXCEPT !.pc = "saveReset", !.loaded = a.user,
                               !.user = [a.user EXCEPT !.failedLoginAttempts = 0,
                                                       !.lockUntil = 0]]
                ELSE IssueToken(a, 200)]
        /\ UNCHANGED <<config, generation, deployed, accounts, clock>>

\* this.save() of handleFailedLogin or resetLoginAttempts settles (part_005
\* 129, 136; part_008 109-136).
LoginSaveSettles(c) ==
    LET a == auth[c]
    IN  /\ a.pc \in {"saveFailed", "saveReset"}
        /\ \/ /\ \E whole \in BOOLEAN :
                    accounts' = [accounts EXCEPT ![a.email] =
                                    SaveDoc(@, a.loaded, a.user, whole)]
              /\ auth' = [auth EXCEPT ![c] =
                    IF a.pc = "saveFailed"
                    THEN Reply(a, 401, "Invalid email or password",
                               "INVALID_CREDENTIALS", NoToken)
                    ELSE IssueToken(a, 200)]
           \/ /\ auth' = [auth EXCEPT ![c] = AuthCatch(a)]
              /\ UNCHANGED accounts
        /\ UNCHANGED <<config, generation, deployed, clock>>

\* POST /auth/register reaches register or registerUser; the handler runs
\* to its first await (part_008 9-29, 261-269; singleUserAuth.ts 15-22;
\* part_001 14-23).  The address without @ is sent to register, which alone
\* tests the format; the password the expression refuses is sent to the
\* versions whose model has the expression; registerUser of part_001, which
\* hands every password on as a hash, is sent the short one.
CallRegister(c) ==
    /\ auth[c].pc \in {"idle", "done"}
    /\ \E fn \in Mounted(deployed) \cap RegisterFunctions,
          email \in RegisterEmails, password \in RegisterPasswords :
        /\ email = "a.x.io" => fn = "register"
        /\ password = "Right#1pw" => MinLength(deployed) = 8
        /\ fn = RegisterUser001 => password \in {Falsy, "wrong"}
        /\ LET a == [IdleAuth EXCEPT !.fn = fn, !.email = email,
                                     !.password = password]
           IN  auth' = [auth EXCEPT ![c] =
                IF email = Falsy \/ password = Falsy
                THEN Reply(a, 400, "Email and password are required",
                           "VALIDATION_ERROR", NoToken)
                ELSE IF fn = "register" /\ ~EmailFormatOk(email)
                THEN Reply(a, 400, "Please provide a valid email address",
                           "INVALID_EMAIL", NoToken)
                ELSE [a EXCEPT !.pc = "findOne"]]
    /\ UNCHANGED <<config, generation, deployed, accounts, clock>>

\* User.findOne({ email }) of a registration settles (part_008 29-44,
\* 269-281; singleUserAuth.ts 22-28; part_001 23-29): registerUser of
\* part_001 goes on to hash the password itself, the others save.
RegisterFindOneSettles(c) ==
    LET a == auth[c]
    IN  /\ a.pc = "findOne"
        /\ a.fn \in RegisterFunctions
        /\ \/ auth' = [auth EXCEPT ![c] =
                IF a.email \notin DOMAIN accounts
                THEN [a EXCEPT !.pc = IF a.fn = RegisterUser001 THEN "hash"
                                      ELSE "save"]
                ELSE IF a.fn = "register"
                THEN Reply(a, 409, "An account with this email already exists",
                           "EMAIL_EXISTS", NoToken)
                ELSE Reply(a, 400, "User already exists", Falsy, NoToken)]
           \/ auth' = [auth EXCEPT ![c] = AuthCatch(a)]
        /\ UNCHANGED <<config, generation, deployed, accounts, clock>>

\* bcrypt.hash(password, 12) of registerUser of part_001 settles (29-35):
\* the document to create carries the hash as its password.
HashSettles(c) ==
    LET a == auth[c]
    IN  /\ a.pc = "hash"
        /\ auth' = [auth EXCEPT ![c] =
                        [a EXCEPT !.pc = "save",
                                  !.user = [NoUser EXCEPT !.password =
                                                            Hash(a.password)]]]
        /\ UNCHANGED <<config, generation, deployed, accounts, clock>>

\* user.save() or User.create of a registration settles (part_008 44-76,
\* 281-301; singleUserAuth.ts 28-38; part_001 30-52).  The validator or the
\* pre-save hook refuses the password, the unique index refuses an email
\* that was registered meanwhile, or the account is created and the token
\* issued.  register answers 400 with error.message of a ValidationError
\* ("User validation failed", the path and the validator that failed) and
\* 500 after any other error; the others answer 500 after every error.  The
\* hash that registerUser of part_001 hands over has sixty characters, and
\* the hook hashes it once more.
RegisterSaveSettles(c) ==
    LET a == auth[c]
        saved == IF a.fn = RegisterUser001 THEN "hashed"
                 ELSE PreSave(deployed, a.password)
    IN  /\ a.pc = "save"
        /\ a.fn \in RegisterFunctions
        /\ \/ /\ saved = "ValidationError"
              /\ auth' = [auth EXCEPT ![c] =
                    IF a.fn = "register"
                    THEN Reply(a, 400, <<"User validation failed", "password",
                                         "minlength">>,
                               "VALIDATION_ERROR", NoToken)
                    ELSE AuthCatch(a)]
              /\ UNCHANGED accounts
           \/ /\ saved = "hashed"
              /\ a.email \notin DOMAIN accounts
              /\ accounts' = Insert(accounts, a.email,
                                [NoUser EXCEPT !.password =
                                    IF a.fn = RegisterUser001
                                    THEN Rehash(a.user.password)
                                    ELSE Hash(a.password)])
              /\ auth' = [auth EXCEPT ![c] = IssueToken(a, 201)]
           \/ /\ auth' = [auth EXCEPT ![c] = AuthCatch(a)]
              /\ UNCHANGED accounts
        /\ UNCHANGED <<config, generation, deployed, clock>>

\* POST /auth/google reaches googleAuth; the handler runs to its first
\* await (part_008 146-160, 344-355).
CallGoogleAuth(c) ==
    /\ auth[c].pc \in {"idle", "done"}
    /\ \E fn \in Mounted(deployed) \cap GoogleFunctions, idToken \in IdTokens :
        LET a == [IdleAuth EXCEPT !.fn = fn, !.idToken = idToken]
        IN  auth' = [auth EXCEPT ![c] =
                IF idToken = Falsy
                THEN Reply(a, 400, "ID token is required", "VALIDATION_ERROR",
                           NoToken)
                ELSE [a EXCEPT !.pc = "verifyIdToken"]]
    /\ UNCHANGED <<config, generation, deployed, accounts, clock>>

\* client.verifyIdToken settles (part_008 157-172, 352-364): it rejects a
\* token Google did not sign; ticket.getPayload() of a ticket is the payload
\* or undefined, and without payload googleAuth answers 400.
VerifyIdTokenSettles(c) ==
    LET a == auth[c]
    IN  /\ a.pc = "verifyIdToken"
        /\ \/ auth' = [auth EXCEPT ![c] =
                IF a.idToken = "forged" THEN AuthCatch(a)
                ELSE [a EXCEPT !.pc = "findOne",
                               !.email = PayloadEmail(a.idToken)]]
           \/ /\ a.idToken # "forged"
              /\ auth' = [auth EXCEPT ![c] =
                    Reply(a, 400,
                          IF a.fn = "googleAuth" THEN "Invalid Google token"
                          ELSE "Invalid token",
                          "INVALID_TOKEN", NoToken)]
        /\ UNCHANGED <<config, generation, deployed, accounts, clock>>

\* User.findOne({ email }) of googleAuth settles (part_008 172-189,
\* 364-381): an unknown email gets a new account, an account without
\* googleId is linked, and both are saved; else the token is issued.
GoogleFindOneSettles(c) ==
    LET a == auth[c]
    IN  /\ a.pc = "findOne"
        /\ a.fn \in GoogleFunctions
        /\ \/ auth' = [auth EXCEPT ![c] =
                IF a.email \notin DOMAIN accounts
                THEN [a EXCEPT !.pc = "save",
                               !.user = [NoUser EXCEPT !.googleId = Sub(a.email)]]
                ELSE IF accounts[a.email].googleId = Falsy
                THEN [a EXCEPT !.pc = "saveLinked", !.loaded = accounts[a.email],
                               !.user = [accounts[a.email] EXCEPT
                                            !.googleId = Sub(a.email)]]
                ELSE IssueToken(a, 200)]
           \/ auth' = [auth EXCEPT ![c] = AuthCatch(a)]
        /\ UNCHANGED <<config, generation, deployed, accounts, clock>>

\* user.save() of googleAuth settles (part_008 182-214, 374-402).
GoogleSaveSettles(c) ==
    LET a == auth[c]
    IN  /\ a.fn \in GoogleFunctions
        /\ a.pc \in {"save", "saveLinked"}
        /\ \/ /\ a.pc = "save"
              /\ a.email \notin DOMAIN accounts
              /\ accounts' = Insert(accounts, a.email, a.user)
              /\ auth' = [auth EXCEPT ![c] = IssueToken(a, 200)]
           \/ /\ a.pc = "saveLinked"
              /\ \E whole \in BOOLEAN :
                    accounts' = [accounts EXCEPT ![a.email] =
                                    SaveDoc(@, a.loaded, a.user, whole)]
              /\ auth' = [auth EXCEPT ![c] = IssueToken(a, 200)]
           \/ /\ auth' = [auth EXCEPT ![c] = AuthCatch(a)]
              /\ UNCHANGED accounts
        /\ UNCHANGED <<config, generation, deployed, clock>>

\* Time passes.
Tick ==
    /\ clock < MaxNow
    /\ clock' = clock + 1
    /\ UNCHANGED <<config, generation, deployed, accounts, auth>>

\* startServer of a version (index.ts 106-125): the requests in flight of
\* the process it replaces are dropped, the collection stays.  connectDB
\* runs seedOneUser (seed.ts 4-12) before the server listens: the demo user
\* is looked up and, when absent, created with the password "demo123", which
\* the model of part_005 70-138 refuses; after that or any other rejection
\* connectDB ends the process (index.ts 112-115).
Deploy ==
    /\ \E version \in Versions \ {deployed} :
        LET exists == "demouser@gmail.com" \in DOMAIN accounts
        IN  \/ /\ exists
               /\ deployed' = version
               /\ UNCHANGED accounts
            \/ /\ ~exists
               /\ PreSave(version, "demo123") = "hashed"
               /\ accounts' = Insert(accounts, "demouser@gmail.com", DemoUser)
               /\ deployed' = version
            \/ /\ deployed' = "exited"
               /\ UNCHANGED accounts
    /\ auth' = [c \in Callers |-> IdleAuth]
    /\ UNCHANGED <<config, generation, clock>>

\* No process runs yet and the collection is empty.
InitLogin ==
    /\ REPLICATE_API_TOKEN = TRUE
    /\ REPLICATE_TIMEOUT = 1
    /\ REPLICATE_POLL_INTERVAL = 1
    /\ OPENROUTER_API_KEY = TRUE
    /\ NoCall
    /\ accounts = NoUsers
    /\ deployed = "none"

NextLogin ==
    \/ \E c \in Callers :
        \/ CallLogin(c)
        \/ LoginFindOneSettles(c)
        \/ ComparePasswordSettles(c)
        \/ LoginSaveSettles(c)
        \/ CallRegister(c)
        \/ RegisterFindOneSettles(c)
        \/ HashSettles(c)
        \/ RegisterSaveSettles(c)
        \/ CallGoogleAuth(c)
        \/ VerifyIdTokenSettles(c)
        \/ GoogleFindOneSettles(c)
        \/ GoogleSaveSettles(c)
    \/ Tick
    \/ Deploy

SpecLogin == InitLogin /\ [][NextLogin]_vars

\* ------------------------------------------------------------ observations
Generating == handler = "generateImages"
\* The records this call created, in creation order.
Created == SubSeq(thumbnails, Len(ExistingThumbnails) + 1, Len(thumbnails))
\* The assets this call stored in the thumbnails folder.
StoredImages ==
    SelectSeq(SubSeq(cloud, Len(ExistingAssets) + 1, Len(cloud)),
              LAMBDA a : a.folder = "thumbnails")
\* Positions of the output list whose bytes were downloaded.
OkIdx == {downloaded[i].idx : i \in {j \in 1..Len(downloaded) : downloaded[j].ok}}
Materialized == Cardinality(OkIdx)
\* The downloaded images as data URIs, in the order of the output list.
Fetched ==
    LET list == predictionOutput.list
        ks == SelectSeq([k \in 1..Len(list) |-> k], LAMBDA k : k \in OkIdx)
    IN  [i \in 1..Len(ks) |-> DataUri(BytesAt(list[ks[i]]))]
AssetAt(url) == cloud[url.asset]
DownloadsInFlight == {r \in pending : r.op = "download"}

\* ------------------------------------------------------------------ claims
\* C1 (as claimed): when a generateImages call has ended, whatever its
\* outcome, it has created exactly one record per output image whose bytes
\* were downloaded.
C1_OneRecordPerMaterializedImage ==
    (Generating /\ pc = "done") =>
        /\ Len(Created) = Materialized
        /\ \A i \in 1..Len(Created) : AssetAt(Created[i].imageUrl).data = Fetched[i]

\* C2 (as claimed): when a generateImages call that stored and recorded at
\* least one image has ended, its response is the success response listing
\* the recorded images; an error response means no record was created.
C2_PartialListReturned ==
    (Generating /\ pc = "done" /\ Len(Created) >= 1) =>
        /\ res.status = 200
        /\ res.body.urls = [i \in 1..Len(Created) |-> Created[i].imageUrl]

\* C3: once generateImages has seen the status failed, or has found the
\* deadline exceeded, no output is downloaded, nothing is stored in the
\* thumbnails folder and no record is created; the response it sends is an
\* error, whose details are the provider's error reason when the failed
\* prediction carried one.
C3_FailedOrTimedOutStoresNothing ==
    (Generating /\ (predictionStatus = "failed" \/ checkedLateAt >= 0)) =>
        /\ downloaded = <<>>
        /\ DownloadsInFlight = {}
        /\ StoredImages = <<>>
        /\ Created = <<>>
        /\ pc = "done" =>
            /\ res.status >= 400
            /\ (predictionStatus = "failed" /\ predictionError # Falsy)
                   => res.body.details = <<predictionError>>

C3_Witness ==
    /\ Generating /\ pc = "done" /\ polls >= 1
    /\ predictionStatus = "failed" /\ predictionError = "NSFW content detected"
    /\ res.status = 500

\* C4: in generateImages and editImage at most one cancel request is
\* issued, only by a deadline check that found the elapsed time above the
\* timeout with the prediction still in progress; the handler never goes
\* back to sleep past the deadline, a call that ended with the prediction in
\* progress and no exception has issued exactly one cancel, and after the
\* cancel no status poll and no second cancel is issued.
C4_StateOk ==
    /\ cancels <= 1
    /\ pc \in {"sleep", "poll"} => cancels = 0
    /\ pc = "sleep" => elapsed <= REPLICATE_TIMEOUT
    /\ cancels = 1 =>
        /\ checkedLateAt > REPLICATE_TIMEOUT
        /\ predictionStatus \in InProgress
        /\ pollIssuedAt <= checkedLateAt
        /\ Op("poll") \notin pending
    /\ (pc = "done" /\ predictionStatus \in InProgress /\ caught = "none")
           => cancels = 1

C4_ExactlyOneCancelOnTimeout ==
    /\ []C4_StateOk
    /\ [][cancels >= 1 => (polls' = polls /\ cancels' = cancels)]_vars

C4_Witness ==
    /\ Generating /\ pc = "done" /\ polls >= 2 /\ cancels = 1
    /\ predictionStatus = "processing" /\ res.status = 504

\* C5: a generateImages call that has ended answered 504 if and only if its
\* deadline check fired, which is with the prediction in progress and the
\* elapsed time above the timeout, however the cancel request settled; a call
\* that ended by an exception or with a status that is not in progress did
\* not answer 504.
C5_TimeoutIffDeadlineExceeded ==
    (Generating /\ pc = "done") =>
        /\ res.status = 504 <=> checkedLateAt >= 0
        /\ res.status = 504 =>
            /\ predictionStatus \in InProgress
            /\ checkedLateAt > REPLICATE_TIMEOUT
            /\ cancelResult \in {"fulfilled", "rejected"}
        /\ (caught # "none" \/ predictionStatus \notin InProgress)
               => res.status \in {200, 400, 401, 500}

C5_Witness ==
    /\ Generating /\ pc = "done" /\ res.status = 504 /\ cancelResult = "rejected"

\* C6 (as claimed): every status poll of generateImages is issued at an
\* elapsed time not greater than the timeout.
C6_EveryPollWithinDeadline ==
    Generating => pollIssuedAt <= REPLICATE_TIMEOUT

\* C7 (as claimed): while the cancel request of generateImages is unanswered
\* the timeout response has already been sent.
C7_ResponseDoesNotAwaitCancel ==
    (Generating /\ Op("cancel") \in pending) => sent = 1

\* C8: in generateImages a failed download ends neither the download loop
\* nor the request: the loop fetches every output URL and keeps exactly the
\* downloaded images, and a call that downloaded at least one image and met
\* no exception answers 200 with one url and one record per downloaded
\* image, each url naming the stored copy of that image.
C8_PartialDownloadSucceeds ==
    Generating =>
        /\ (pc \in {"upload", "save"} \/ (pc = "done" /\ downloaded # <<>>))
               => /\ Len(downloaded) = Len(predictionOutput.list)
                  /\ base64s = Fetched
        /\ (pc = "done" /\ Materialized >= 1 /\ caught = "none")
               => /\ res.status = 200
                  /\ Len(res.body.urls) = Materialized
                  /\ Len(Created) = Materialized
                  /\ \A i \in 1..Materialized :
                        /\ Created[i].imageUrl = res.body.urls[i]
                        /\ AssetAt(res.body.urls[i]).data = Fetched[i]

C8_Witness ==
    /\ Generating /\ pc = "done" /\ res.status = 200
    /\ Len(downloaded) = 2 /\ ~downloaded[1].ok /\ downloaded[2].ok
    /\ Len(Created) = 1

\* C9: a generateImages call that ended with the status succeeded and no
\* usable image (no output list, an empty one, or every download failed)
\* answered with an error, stored nothing in the thumbnails folder and
\* created no record; a 200 response never carries an empty urls list.
C9_EmptyResultIsAnError ==
    (Generating /\ pc = "done") =>
        /\ ( /\ predictionStatus = "succeeded"
             /\ \/ ~predictionOutput.def
                \/ Len(predictionOutput.list) = 0
                \/ (Len(downloaded) = Len(predictionOutput.list) /\ Materialized = 0) )
           => /\ res.status >= 400
              /\ StoredImages = <<>>
              /\ Created = <<>>
        /\ res.status = 200 => Len(res.body.urls) >= 1

C9_Witness ==
    /\ Generating /\ pc = "done" /\ predictionStatus = "succeeded"
    /\ Len(downloaded) = 2 /\ Materialized = 0
    /\ res.status = 500 /\ res.body.error = "No image data received from Replicate"

\* C10: at most one download of a generateImages request is in flight, the
\* outputs are fetched in list order, and the records created and the urls
\* answered follow the order of the provider's output list.
C10_SequentialAndOrdered ==
    Generating =>
        /\ Cardinality(DownloadsInFlight) <= 1
        /\ \A i \in 1..Len(downloaded) : downloaded[i].idx = i
        /\ Len(Created) <= Len(urls)
        /\ \A i \in 1..Len(urls) : AssetAt(urls[i]).data = Fetched[i]
        /\ \A i \in 1..Len(Created) : Created[i].imageUrl = urls[i]
        /\ (pc = "done" /\ res.status = 200)
               => /\ res.body.urls = urls
                  /\ Len(urls) = Len(Fetched)

C10_Witness ==
    /\ Generating /\ pc = "done" /\ res.status = 200
    /\ predictionOutput.list = <<"b", "a">>
    /\ Len(res.body.urls) = 2 /\ Len(Created) = 2

\* The prediction object the handler was answered last: the submission's
\* answer until a status poll has been answered.
LastAnswer ==
    IF polls = 0
    THEN [status |-> predictionStatus, output |-> submitted.output,
          error |-> submitted.error]
    ELSE [status |-> predictionStatus, output |-> predictionOutput,
          error |-> predictionError]

\* C11 (as claimed): a generateImages call that ended without an exception
\* after the provider answered succeeded with a non-empty output list has
\* fetched every output and answered by the downloads alone, the same after
\* no tick (the submission is answered succeeded) as after N ticks: 200 with
\* one url and one record per downloaded image, or the empty-result error.
C11_ResultIndependentOfTicks ==
    ( /\ Generating /\ pc = "done" /\ caught = "none"
      /\ LastAnswer.status = "succeeded"
      /\ LastAnswer.output.def /\ Len(LastAnswer.output.list) >= 1 )
    => /\ Len(downloaded) = Len(LastAnswer.output.list)
       /\ Materialized >= 1 =>
            /\ res.status = 200
            /\ Len(res.body.urls) = Materialized
            /\ Len(Created) = Materialized
       /\ Materialized = 0 =>
            /\ res.status = 500
            /\ res.body.error = "No image data received from Replicate"

\* The bytes Cloudinary was sent for an asset.
StoredBytes(a) ==
    IF a.data.prefix = "buffer" THEN a.data.payload[2]
    ELSE Base64Decode(a.data.payload)

\* C12 (as claimed): a chat-completion generateImages call that was answered
\* a message with m >= 1 images (and no data URI in its text) and ended
\* without an exception answered 200 with m urls and created m records, the
\* i-th of them for the i-th image of the message.
C12_OneRecordPerReturnedImage ==
    ( /\ handler \in {Chat, Sharp} /\ pc = "done" /\ caught = "none"
      /\ Len(message.images) >= 1 /\ Match(message.content) = <<>> )
    => /\ res.status = 200
       /\ Len(res.body.urls) = Len(message.images)
       /\ Len(Created) = Len(message.images)
       /\ \A i \in 1..Len(message.images) :
            /\ Created[i].imageUrl = res.body.urls[i]
            /\ StoredBytes(AssetAt(res.body.urls[i])) = BufferOf(message.images[i])

\* The request passed validation, the reference upload (if any) and the
\* credential check.
PassedChecks ==
    /\ req.prompt # Falsy /\ req.userId # Falsy
    /\ req.file => originalImageUrl # NoUrl
    /\ REPLICATE_API_TOKEN

\* C13: a generateImages call issues at most one submission request, and
\* exactly one as soon as validation, reference upload and credential check
\* have passed; after an exception the catch block answers and no
\* submission is pending or issued again.
C13_AtMostOneSubmission ==
    Generating =>
        /\ submits <= 1
        /\ submits = 1 <=> PassedChecks
        /\ Op("submit") \in pending => (pc = "submit" /\ caught = "none")
        /\ caught # "none" => (pc = "done" /\ pending = {} /\ submits = 1)

C13_Witness ==
    /\ Generating /\ pc = "done" /\ caught = "poll" /\ req.file
    /\ submits = 1 /\ polls >= 1

\* The prediction call c submitted: 0 before the submission is answered.
Own(c) == calls[c].predictionId
Answered(c, s) == calls[c].pc = "done" /\ calls[c].res.status = s

\* C14: with generateImages calls in flight at once, on identical prompts
\* too, every prediction belongs to the one call that submitted it, a call
\* polls and cancels only the prediction it submitted, what it has read is
\* the state and output of that prediction, and its 200 response lists
\* stored copies of that prediction's output, each recorded under the call's
\* own user and prompt.
C14_CallsDoNotInterfere ==
    /\ \A r \in requests : r.kind \in {"poll", "cancel"} =>
          /\ r.id \in 1..Len(predictions)
          /\ predictions[r.id].by = r.call
    /\ \A id \in 1..Len(predictions) :
          /\ Own(predictions[id].by) = id
          /\ predictions[id].input = calls[predictions[id].by].prompt
    /\ \A c \in Callers :
          /\ Cardinality({r \in requests : r.call = c /\ r.kind = "submit"}) <= 1
          /\ calls[c].predictionStatus \in {"succeeded", "failed"}
                => predictions[Own(c)].status = calls[c].predictionStatus
          /\ calls[c].predictionOutput.def
                => calls[c].predictionOutput.list = OutputOf(Own(c))
          /\ Answered(c, 200) =>
                /\ Len(calls[c].res.body.urls) = Len(OutputOf(Own(c)))
                /\ \A i \in 1..Len(calls[c].res.body.urls) :
                      LET url == calls[c].res.body.urls[i]
                      IN  /\ AssetAt(url).data = DataUri(BytesAt(OutputOf(Own(c))[i]))
                          /\ \E k \in 1..Len(thumbnails) :
                                /\ thumbnails[k].imageUrl = url
                                /\ thumbnails[k].userId = calls[c].userId
                                /\ thumbnails[k].prompt = <<calls[c].prompt>>

C14_Witness ==
    /\ Answered("c1", 200) /\ Answered("c2", 200)
    /\ calls["c1"].prompt = calls["c2"].prompt
    /\ Own("c1") = 2 /\ Own("c2") = 1
    /\ \A c \in Callers : \E r \in requests : r.call = c /\ r.kind = "poll"
    /\ calls["c1"].res.body.urls[1].asset < calls["c2"].res.body.urls[1].asset

\* C15 (as claimed): once the client of a generateImages call has dropped
\* the connection, the call issues no status poll any more; the only request
\* it then sends to Replicate is the cancel of its prediction.
C15_DisconnectStopsPolling ==
    \A r \in requests : r.disconnected => r.kind = "cancel"

\* The editImage request passed validation.
ValidEdit == req.userId # Falsy /\ req.thumbnailId # 0 /\ req.editPrompt # Falsy
\* The generateImages request passed validation and its reference upload.
ValidGenerate ==
    /\ req.prompt # Falsy /\ req.userId # Falsy
    /\ req.file => originalImageUrl # NoUrl

\* C16: without a Replicate token, generateImages and editImage issue no
\* submission, poll or cancel request, store no image and create no record,
\* and a call that passed validation (and its reference upload) is answered
\* the configuration error.
C16_MissingTokenIsConfigurationError ==
    (handler \in {"generateImages", "editImage"} /\ ~REPLICATE_API_TOKEN) =>
        /\ submits = 0 /\ polls = 0 /\ cancels = 0
        /\ \A r \in pending : r.op \notin {"submit", "poll", "cancel"}
        /\ StoredImages = <<>>
        /\ Created = <<>>
        /\ (pc = "done" /\ (IF Generating THEN ValidGenerate ELSE ValidEdit))
               => /\ res.status = 500
                  /\ res.body.error = "AI service configuration missing"

C16_Witness ==
    /\ Generating /\ pc = "done" /\ ~REPLICATE_API_TOKEN
    /\ req.file /\ originalImageUrl # NoUrl
    /\ res.status = 500 /\ res.body.error = "AI service configuration missing"

\* C17 (as claimed): a generateImages call that passed validation while the
\* provider's credential is not configured is answered 503 with an error
\* message, and no generation request is issued.
C17_MissingKeyAnswers503 ==
    (Generating /\ pc = "done" /\ ~REPLICATE_API_TOKEN /\ ValidGenerate) =>
        /\ res.status = 503
        /\ res.body.error # Falsy
        /\ submits = 0

\* The error texts by which the repository's handlers answer a missing
\* credential (163-166, 329-332, 607-612) or a rejected one (part_007
\* 288-294).
ConfigurationOrAuthErrors ==
    {"AI service configuration missing",
     "API key not configured. Please set OPENROUTER_API_KEY in your environment variables.",
     "AI service authentication failed. Please check your API configuration."}

\* C18 (as claimed): when the submission of generateImages was rejected with
\* a 4xx status, the call ended at once without any status poll and was
\* answered a configuration/auth error, not the generation-failure error.
C18_RejectedSubmissionIsAuthError ==
    ( /\ Generating /\ caught = "submit"
      /\ ResponseStatus(thrown) \in 400..499 )
    => /\ pc = "done" /\ polls = 0 /\ pending = {}
       /\ res.body.error # "Image generation failed"
       /\ res.body.error \in ConfigurationOrAuthErrors

\* C19: when a status poll of generateImages was rejected, the call has
\* ended: it is the only rejected poll, nothing is pending, the catch block
\* answered 500 with the thrown message, and no output was downloaded, no
\* image stored and no record created; after it no poll is issued.
C19_StateOk ==
    (Generating /\ pollsFailed >= 1) =>
        /\ pollsFailed = 1
        /\ pc = "done" /\ caught = "poll" /\ pending = {}
        /\ res.status = 500 /\ res.body.error = thrown.message
        /\ downloaded = <<>> /\ StoredImages = <<>> /\ Created = <<>>

C19_FailedPollEndsTheCall ==
    /\ []C19_StateOk
    /\ [][(Generating /\ pollsFailed >= 1) => polls' = polls]_vars

C19_Witness ==
    /\ Generating /\ pollsFailed = 1 /\ polls >= 2 /\ pc = "done"
    /\ thrown.message = "Network Error" /\ res.status = 500

\* Nothing was uploaded, submitted, polled, fetched or recorded.
NoSideEffect ==
    /\ cloud = ExistingAssets /\ thumbnails = ExistingThumbnails
    /\ submits = 0 /\ polls = 0 /\ cancels = 0
    /\ downloaded = <<>> /\ pending = {}

\* C20: a generateImages request with an empty or missing prompt is answered
\* 400, one with a prompt but without an owner id 401, and one that
\* authMiddleware turns away 401; in each case the call has ended without a
\* reference upload, a submission or a record.
C20_RejectedBeforeSideEffects ==
    /\ (Generating /\ req.prompt = Falsy)
          => (pc = "done" /\ res.status = 400 /\ NoSideEffect)
    /\ (Generating /\ req.prompt # Falsy /\ req.userId = Falsy)
          => (pc = "done" /\ res.status = 401 /\ NoSideEffect)
    /\ handler = "authMiddleware"
          => (pc = "done" /\ res.status = 401 /\ NoSideEffect)

C20_Witness ==
    /\ Generating /\ pc = "done" /\ req.file
    /\ req.prompt # Falsy /\ req.userId = Falsy
    /\ res.status = 401 /\ res.body.error = "Not authenticated"

\* ------------------------------------------------------------------ liveness
\* Every outbound call a handler awaits is answered or fails, and every timer
\* fires: a step of the handler that is enabled is eventually taken.
SpecLive == Spec /\ WF_vars(Next)

\* C21: when every awaited call is answered and every timer fires, a
\* generateImages call sends a response, also when every answer of the
\* provider is a status in progress; it never sends a second one and it sends
\* one exactly when it ends.
C21_EventuallyOneResponse ==
    /\ [](Generating => (sent <= 1 /\ (pc = "done" <=> sent = 1)))
    /\ [][(Generating /\ sent = 1) => sent' = 1]_vars
    /\ Generating ~> (pc = "done" /\ sent = 1 /\ pending = {})

C21_Witness ==
    /\ Generating /\ pc = "done" /\ sent = 1 /\ res.status = 504
    /\ submitted = NoData /\ polls >= 2 /\ predictionStatus \in InProgress

\* C22 (as claimed): with a poll interval I > 0 and a timeout T one
\* generateImages call issues at most floor(T / I) + 1 status polls.
C22_PollsBounded ==
    (Generating /\ REPLICATE_POLL_INTERVAL > 0)
        => polls <= (REPLICATE_TIMEOUT \div REPLICATE_POLL_INTERVAL) + 1

\* C23 (as claimed): every record a generateImages call created has the
\* caller's id as its owner, an image location, and as its prompt the prompt
\* of the request, with or without an enhanced prompt in the request.
C23_RecordMatchesRequest ==
    Generating =>
        \A i \in 1..Len(Created) :
            /\ Created[i].userId = req.userId /\ req.userId \in Users
            /\ Created[i].imageUrl # NoUrl
            /\ Created[i].prompt = <<req.prompt>>

\* C24 (as claimed): when generateImages or rewriteQuery has answered a
\* request that carried a reference file, the temporary file multer wrote is
\* gone, whatever the answer.
C24_TempFileDeletedAtResponse ==
    (handler \in {"generateImages", "rewriteQuery"} /\ req.file /\ sent >= 1)
        => ~tmpFile

\* C25: generateImages sleeps or polls only while the last status it read is
\* starting or processing; once it has read any other status than succeeded
\* (failed, canceled, an unrecognized one) the call has ended with the
\* generation failure, no cancel request and nothing pending; and an output
\* is downloaded, an image stored or a record created only after the status
\* succeeded was read with a non-empty output list.
C25_OnlyInProgressPollsOn ==
    Generating =>
        /\ pc \in {"sleep", "poll", "cancel"} => predictionStatus \in InProgress
        /\ predictionStatus \in {"failed", "canceled", "unknown"} =>
            /\ pc = "done" /\ pending = {} /\ cancels = 0
            /\ res.status = 500 /\ res.body.error = "Image generation failed"
            /\ res.body.details = FailureDetails(predictionError, predictionStatus)
        /\ ( \/ pc \in {"download", "upload", "save"}
             \/ downloaded # <<>> \/ StoredImages # <<>> \/ Created # <<>> ) =>
            /\ predictionStatus = "succeeded"
            /\ predictionOutput.def /\ Len(predictionOutput.list) >= 1

C25_Witness ==
    /\ Generating /\ pc = "done" /\ polls = 2 /\ cancels = 0
    /\ predictionStatus = "unknown" /\ res.status = 500

\* C26 (as claimed): a generateImages call whose submission was answered
\* with the status succeeded and a non-empty output list issues no status
\* poll, and once it has ended without an exception it has fetched every
\* output of that list and stored and recorded the downloaded ones.
C26_SubmissionResultIsUsed ==
    ( /\ Generating /\ submits = 1 /\ pc # "submit"
      /\ submitted.output.def /\ Len(submitted.output.list) >= 1 )
    => /\ polls = 0
       /\ (pc = "done" /\ caught = "none") =>
            /\ Len(downloaded) = Len(submitted.output.list)
            /\ Len(Created) = Materialized
            /\ Materialized >= 1 => res.status = 200

\* C27 (as claimed): a generateImages call that answered the configuration
\* error has stored nothing in Cloudinary, not even the reference image.
C27_NoUploadBeforeCredentialCheck ==
    ( /\ Generating /\ pc = "done"
      /\ res.body.error = "AI service configuration missing" )
    => cloud = ExistingAssets

\* C28 (as claimed): every rewriteQuery call sends a response, exactly one,
\* also when the chat completion request fails or its answer is malformed;
\* a call with a prompt and no OpenRouter key answers the fallback enhanced
\* prompt unless the reference upload failed, and has issued no request to
\* the provider.
C28_RewriteAlwaysAnswers ==
    /\ [](handler = "rewriteQuery" => sent <= 1)
    /\ [](( /\ handler = "rewriteQuery" /\ ~OPENROUTER_API_KEY
            /\ pc = "done" /\ res.status = 200 )
          => /\ res.body.rewrittenPrompt = FallbackEnhanced(req.prompt)
             /\ submits = 0)
    /\ (handler = "rewriteQuery") ~> (sent = 1)

\* The request names a thumbnail that another user owns.
OwnedByAnother ==
    /\ handler \in {"editImage", "deleteThumbnail", DeleteLocal}
    /\ req.userId \in Users
    /\ \E i \in 1..Len(ExistingThumbnails) :
          /\ ExistingThumbnails[i].id = req.thumbnailId
          /\ ExistingThumbnails[i].userId # req.userId

\* C29: an editImage or deleteThumbnail request for a thumbnail of another
\* user changes no record and no stored image, issues no submission and is
\* never answered 200; when it is valid, the provider credential is set and
\* the lookup is answered, it is answered 404.  editImage leaves every record
\* that existed as it was and adds only records owned by the caller;
\* deleteThumbnail removes nothing but the named record owned by the caller.
C29_OnlyOwnThumbnails ==
    /\ OwnedByAnother =>
        /\ thumbnails = ExistingThumbnails /\ cloud = ExistingAssets
        /\ submits = 0 /\ res.status # 200
        /\ pc \notin {"fetchOriginal", "submit", "destroy", "deleteOne"}
        /\ ( /\ pc = "done" /\ caught = "none"
             /\ handler = "editImage" => (ValidEdit /\ REPLICATE_API_TOKEN) )
           => res.status = 404
    /\ handler = "editImage" =>
        /\ Len(thumbnails) >= Len(ExistingThumbnails)
        /\ SubSeq(thumbnails, 1, Len(ExistingThumbnails)) = ExistingThumbnails
        /\ \A i \in 1..Len(Created) : Created[i].userId = req.userId
    /\ handler \in {"deleteThumbnail", DeleteLocal} =>
        \A i \in 1..Len(ExistingThumbnails) :
            \/ \E j \in 1..Len(thumbnails) : thumbnails[j] = ExistingThumbnails[i]
            \/ /\ ExistingThumbnails[i].id = req.thumbnailId
               /\ ExistingThumbnails[i].userId = req.userId

C29_Witness ==
    /\ handler = "editImage" /\ pc = "done" /\ REPLICATE_API_TOKEN
    /\ req.userId = "u1" /\ req.thumbnailId = 2 /\ req.editPrompt # Falsy
    /\ res.status = 404 /\ res.body.error = "Thumbnail not found"

\* The lock of the account is in force: its lockUntil is a later date.
LockInForce(email) == accounts[email].lockUntil > clock

\* The request of client c is in login (part_008 79-144) on the account and
\* the step is a step of that request.
LoginStep(c, email) ==
    /\ deployed' = deployed
    /\ auth[c].fn = "login" /\ auth[c].email = email
    /\ auth'[c] # auth[c]

\* C30: in login, an account whose failed-attempt counter is 5 or more has a
\* lock date; while the lock of an account is in force no step of a login on
\* that account answers 200 with a token, whatever the password, or changes
\* the counter; a login answered 200 carries the token and leaves its
\* account unlocked, and the one that saved the reset leaves the counter 0.
C30_LockedAfterFiveFailures ==
    [][\A c \in Callers, email \in DOMAIN accounts :
          LoginStep(c, email) =>
            /\ accounts'[email].failedLoginAttempts >= MaxFailedAttempts
                  => accounts'[email].lockUntil # 0
            /\ LockInForce(email) =>
                  /\ auth'[c].res.status # 200
                  /\ accounts'[email].failedLoginAttempts
                        = accounts[email].failedLoginAttempts
            /\ auth'[c].res.status = 200 =>
                  /\ auth'[c].res.body.token = Token(email)
                  /\ ~IsLocked(accounts'[email], clock')
                  /\ auth[c].pc = "saveReset"
                        => accounts'[email].failedLoginAttempts = 0]_vars
====
